---------------------------- MODULE Spec2Model ----------------------------
(***************************************************************************)
(* LLM-Connector: the batch and file adapters of the Anthropic and OpenAI  *)
(* providers and the provider connector, as state machines.                *)
(*                                                                         *)
(* One adapter instance (chosen in Init) works against the server-side     *)
(* state of its provider.  The adapters keep no state of their own: the    *)
(* variables are the provider's jobs and files, the operation the caller   *)
(* has just completed (lastOp) and the history the properties need.        *)
(*                                                                         *)
(* Spec         the batch and file operations of one adapter, interleaved  *)
(*              with the provider's own moves and with failing calls;      *)
(* SpecPayload  create() over every JSONL payload up to MaxLen tokens;     *)
(* SpecConn     one connector and the calls of its accessors;              *)
(* SpecNew      a connector class from its construction on;                *)
(* SpecList     list() of one batch adapter, called again;                 *)
(* SpecAsync    two coroutines on one async batch adapter, interleaved at  *)
(*              their awaits;                                              *)
(* SpecShort    status() and retrieve() answered with a payload that lacks *)
(*              a field;                                                   *)
(* SpecStream   the tool-call deltas of a stream, collected per index;     *)
(* SpecLines    create() over files of up to MaxLines lines, blank ones    *)
(*              among them;                                                *)
(* SpecPoll     a batch cancelled and then polled with status(), under     *)
(*              fairness of the provider;                                  *)
(* SpecThreads  two threads in the accessors of one connector, interleaved *)
(*              at every step;                                             *)
(* SpecBoth     create() given a file and a requests list together.        *)
(***************************************************************************)
EXTENDS Integers, Sequences, FiniteSets, TLC

VARIABLES
    adapter,        \* the class under test
    conn,           \* the connector object: its fields and what its accessors did
    jobs,           \* provider: job id -> server-side batch job
    nextId,         \* provider: id the next created batch gets
    files,          \* provider: file id -> stored file
    nextFile,       \* provider: id the next uploaded file gets
    lastOp,         \* the adapter call that has just completed (NoOp: the caller is between calls)
    firstTerminal,  \* history: job id -> first terminal unified status returned for it
    firstList,      \* history: the first list() that returned since the job list last changed
    tasks,          \* the coroutines running on the async adapter: position, locals, result
    self,           \* the attributes of the adapter object the coroutines run on
    collected,      \* the streaming helper's collected_tool_calls: index -> id, name, arguments
    arrived,        \* history: the tool-call deltas of the stream, in arrival order
    threads         \* the threads calling an accessor of the connector: position, locals

vars ==
    <<adapter, conn, jobs, nextId, files, nextFile, lastOp, firstTerminal, firstList, tasks, self,
      collected, arrived, threads>>

(***************************************************************************)
(* Bounds of the model.                                                    *)
(***************************************************************************)
MaxJobs == 2
MaxLen == 3
MaxLimit == 2
MaxFiles == 2
MaxCalls == 4

JobIds == 1..MaxJobs
FileIds == 1..MaxFiles

(***************************************************************************)
(* Python values.                                                          *)
(***************************************************************************)
None == "None"

\* The two requests of the batch scenario, each a whole JSON object on a line.
CustomIds == {"request-1", "request-2"}

RECURSIVE SeqMap(_, _)
SeqMap(F(_), s) == IF s = <<>> THEN <<>> ELSE <<F(Head(s))>> \o SeqMap(F, Tail(s))

Range(s) == {s[i] : i \in DOMAIN s}

\* Sequences over S of length at most n.
SeqsUpTo(S, n) == UNION {[1..k -> S] : k \in 0..n}

\* Duplicate-free sequences over S.
Perms(S) == {s \in [1..Cardinality(S) -> S] : Range(s) = S}

(***************************************************************************)
(* Exceptions an operation can meet: the provider SDK's hierarchy and the  *)
(* Python built-ins, as (class, status_code) pairs.                        *)
(***************************************************************************)
Parents ==
    [ AuthenticationError |-> "APIStatusError",
      NotFoundError       |-> "APIStatusError",
      BadRequestError     |-> "APIStatusError",
      InternalServerError |-> "APIStatusError",
      APIStatusError      |-> "APIError",
      APIConnectionError  |-> "APIError",
      APIError            |-> "Exception",
      AnthropicError      |-> "Exception",
      AttributeError      |-> "Exception",
      TypeError           |-> "Exception",
      OSError             |-> "Exception",
      UnicodeDecodeError  |-> "Exception",
      Exception           |-> "BaseException",
      CancelledError      |-> "BaseException",
      BaseException       |-> "object" ]

RECURSIVE isinstance(_, _)
isinstance(e, cls) ==
    IF e.cls = cls THEN TRUE
    ELSE IF e.cls \notin DOMAIN Parents THEN FALSE
    ELSE isinstance([e EXCEPT !.cls = Parents[e.cls]], cls)

NoExc == [cls |-> "none", status_code |-> None]
Exc(cls, code) == [cls |-> cls, status_code |-> code]

\* Classes defined by the provider SDK package.
SdkClasses == {"AuthenticationError", "NotFoundError", "BadRequestError",
               "InternalServerError", "APIStatusError", "APIConnectionError", "APIError"}

\* What a provider call can raise besides its answer: a failure of the
\* credentials, of the service, of the transport, or a non-SDK error.
CallFaults ==
    { NoExc,
      Exc("AuthenticationError", "401"),
      Exc("InternalServerError", "500"),
      Exc("APIConnectionError", None),
      Exc("AttributeError", None) }

\* asyncio.CancelledError, thrown into a coroutine at the await it is
\* suspended in when its task is cancelled; a BaseException.
Cancellation == Exc("CancelledError", None)

(***************************************************************************)
(* The provider: server-side message batches.  A job is created            *)
(* in_progress, may be asked to cancel (canceling) and ends (ended); the   *)
(* provider alone moves it.  "paused" stands for a processing_status a     *)
(* later version of the provider API reports and the adapter's table does  *)
(* not know.                                                               *)
(***************************************************************************)
DocumentedNative == {"in_progress", "canceling", "ended"}
UnmappedNative == "paused"
NativeStatuses == DocumentedNative \cup {UnmappedNative}

NoJob == [status |-> "absent", requests |-> <<>>, order |-> <<>>, cancelled |-> FALSE]

\* How the provider settles one request: request-2 is the one that fails,
\* or that a cancellation reaches before it was processed.
ProviderOutcome(custom_id, cancelled) ==
    IF custom_id = "request-1" THEN "succeeded"
    ELSE IF cancelled THEN "canceled" ELSE "errored"

\* The result object of one entry, as the SDK hands it over.
ResultObject(custom_id, cancelled) ==
    LET type == ProviderOutcome(custom_id, cancelled)
    IN  [type    |-> type,
         message |-> IF type = "succeeded" THEN "message of " \o custom_id ELSE None,
         error   |-> IF type = "errored" THEN "error of " \o custom_id ELSE None]

\* The entries the results endpoint streams for a job, in delivery order.
ResultEntries(job) ==
    [i \in 1..Len(job.order) |->
        [custom_id |-> job.order[i], result |-> ResultObject(job.order[i], job.cancelled)]]

CountOf(job, type) ==
    IF job.status # "ended" THEN 0
    ELSE Cardinality({i \in 1..Len(job.order) : ProviderOutcome(job.order[i], job.cancelled) = type})

\* The MessageBatch object the provider answers with for job `id`.
ResponseOf(id, job) ==
        [id                  |-> id,
         processing_status   |-> job.status,
         created_at          |-> "created",
         cancel_initiated_at |-> IF job.cancelled THEN "cancel_initiated" ELSE None,
         ended_at            |-> IF job.status = "ended" THEN "ended" ELSE None,
         expires_at          |-> "created+24h",
         request_counts      |->
             [processing |-> IF job.status = "ended" THEN 0 ELSE Len(job.requests),
              succeeded  |-> CountOf(job, "succeeded"),
              errored    |-> CountOf(job, "errored"),
              canceled   |-> CountOf(job, "canceled"),
              expired    |-> CountOf(job, "expired")]]

NoResponse ==
    [id |-> 0, processing_status |-> None, created_at |-> None,
     cancel_initiated_at |-> None, ended_at |-> None, expires_at |-> None,
     request_counts |-> [processing |-> 0, succeeded |-> 0, errored |-> 0, canceled |-> 0, expired |-> 0]]

Response(id) == ResponseOf(id, jobs[id])

\* One provider call of an operation, as the provider's log would show it.
Call(m, job, requests, limit, after_id) ==
    [m |-> m, job |-> job, requests |-> requests, limit |-> limit, after_id |-> after_id]

\* client.messages.batches.retrieve(job_id): the answer, or the exception raised.
ProviderRetrieve(job_id, fault) ==
    IF fault # NoExc THEN [exc |-> fault, response |-> NoResponse]
    ELSE IF jobs[job_id].status = "absent"
         THEN [exc |-> Exc("NotFoundError", "404"), response |-> NoResponse]
    ELSE [exc |-> NoExc, response |-> Response(job_id)]

(***************************************************************************)
(* The unified model: BatchStatus, BatchTimestamp, BatchRequest and the    *)
(* library's exception kinds.                                              *)
(***************************************************************************)
BatchStatus == {"VALIDATING", "IN_PROGRESS", "FINALIZING", "COMPLETED",
                "FAILED", "EXPIRED", "CANCELLED", "CANCELLING"}

TerminalStatuses == {"COMPLETED", "FAILED", "EXPIRED", "CANCELLED"}

Taxonomy == {"AuthenticationError", "RateLimitError", "InvalidRequestError",
             "ContentFilterError", "APIError", "BatchError", "FileError"}

\* An exception of the library: its kind, its message (the fixed part and
\* the text it carries) and, for APIError, the status code.
Error(kind, msg, detail, code) ==
    [kind |-> kind, msg |-> msg, detail |-> detail, status_code |-> code]

NoError == Error("none", "", "", None)

\* str(e) of a native exception.
str(e) == e.cls

NoBatchRequest ==
    [id |-> 0, status |-> None,
     timestamps |-> [created_at |-> None, in_progress_at |-> None, cancelled_at |-> None,
                     completed_at |-> None, expired_at |-> None, failed_at |-> None,
                     finalized_at |-> None],
     completion_window |-> None, input_file_id |-> None, output_file_id |-> None,
     error_file_id |-> None, endpoint |-> None,
     request_counts |-> [total |-> 0, completed |-> 0, failed |-> 0, canceled |-> 0,
                         expired |-> 0, processing |-> 0]]

(***************************************************************************)
(* AnthropicBatchProcess: the helpers.                                     *)
(***************************************************************************)
\* A status_map that keeps "canceling" apart from "cancelled".
Batch_status_map_swapped(native) ==
    CASE native = "in_progress" -> "IN_PROGRESS"
      [] native = "canceling"   -> "CANCELLING"
      [] native = "ended"       -> "COMPLETED"
      [] OTHER                  -> "IN_PROGRESS"

\* status_map of _to_batch_request, with dict.get's default.
Batch_status_map(native) ==
    CASE native = "in_progress" -> "IN_PROGRESS"
      [] native = "canceling"   -> "CANCELLED"
      [] native = "ended"       -> "COMPLETED"
      [] OTHER                  -> "IN_PROGRESS"

\* A total that leaves out the requests still being processed.
Batch_total_settled(request_counts) ==
    request_counts.succeeded + request_counts.errored + request_counts.canceled
    + request_counts.expired

\* request_counts["total"] of _to_batch_request: the five native counters, summed.
Batch_total(request_counts) ==
    request_counts.processing + request_counts.succeeded + request_counts.errored
    + request_counts.canceled + request_counts.expired

Batch_to_batch_request(response) ==
    [id |-> response.id,
     status |-> Batch_status_map(response.processing_status),
     timestamps |->
         [created_at     |-> IF response.created_at # None THEN response.created_at ELSE "",
          in_progress_at |-> None,
          cancelled_at   |-> response.cancel_initiated_at,
          completed_at   |-> response.ended_at,
          expired_at     |-> response.expires_at,
          failed_at      |-> None,
          finalized_at   |-> response.ended_at],
     completion_window |-> "24h",
     input_file_id |-> "",
     output_file_id |-> None,
     error_file_id |-> None,
     endpoint |-> "/v1/messages",
     request_counts |->
         [total      |-> Batch_total(response.request_counts),
          completed  |-> response.request_counts.succeeded,
          failed     |-> response.request_counts.errored,
          canceled   |-> response.request_counts.canceled,
          expired    |-> response.request_counts.expired,
          processing |-> response.request_counts.processing]]

\* A chain that tests the SDK's generic APIError before its subclasses.
Batch_handle_exception_generic_first(e, sdk) ==
    IF ~sdk THEN Error("BatchError", "", str(e), None)
    ELSE IF isinstance(e, "APIError") THEN Error("APIError", "", str(e), e.status_code)
    ELSE IF isinstance(e, "AuthenticationError") THEN Error("AuthenticationError", "", str(e), None)
    ELSE IF isinstance(e, "NotFoundError") THEN Error("BatchError", "Batch not found: ", str(e), None)
    ELSE Error("BatchError", "", str(e), None)

\* _handle_exception; `sdk` is whether `import anthropic` succeeds.
Batch_handle_exception(e, sdk) ==
    IF ~sdk THEN Error("BatchError", "", str(e), None)
    ELSE IF isinstance(e, "AuthenticationError") THEN Error("AuthenticationError", "", str(e), None)
    ELSE IF isinstance(e, "NotFoundError") THEN Error("BatchError", "Batch not found: ", str(e), None)
    ELSE IF isinstance(e, "APIError") THEN Error("APIError", "", str(e), e.status_code)
    ELSE Error("BatchError", "", str(e), None)

Batch_format_result_entry(result) ==
    [type    |-> result.type,
     message |-> IF result.type = "succeeded" THEN result.message ELSE None,
     error   |-> IF result.type = "errored" THEN result.error ELSE None]


(***************************************************************************)
(* JSONL payloads.  A payload is a text over five tokens: "A" and "B" are  *)
(* the JSON objects of request-1 and request-2, "x" is text that is not    *)
(* JSON, "SP" a blank and "NL" a line break.                               *)
(***************************************************************************)
Tokens == {"A", "B", "x", "SP", "NL"}
Whitespace == {"SP", "NL"}
Contents == SeqsUpTo(Tokens, MaxLen)

\* str.strip()
RECURSIVE lstrip(_)
lstrip(s) == IF s # <<>> /\ Head(s) \in Whitespace THEN lstrip(Tail(s)) ELSE s

RECURSIVE rstrip(_)
rstrip(s) ==
    IF s # <<>> /\ s[Len(s)] \in Whitespace THEN rstrip(SubSeq(s, 1, Len(s) - 1)) ELSE s

strip(s) == rstrip(lstrip(s))

\* str.split("\n"): always at least one piece.
RECURSIVE split(_)
split(s) ==
    IF \A i \in DOMAIN s : s[i] # "NL" THEN <<s>>
    ELSE LET k == CHOOSE i \in DOMAIN s : s[i] = "NL" /\ \A j \in 1..(i - 1) : s[j] # "NL"
         IN  <<SubSeq(s, 1, k - 1)>> \o split(SubSeq(s, k + 1, Len(s)))

\* json.loads(line): the decoded request, or the JSONDecodeError's message.
json_loads(line) ==
    LET t == strip(line)
    IN  IF t = <<>> \/ t[1] \notin {"A", "B"}
        THEN [ok |-> FALSE, value |-> "", error |-> "Expecting value"]
        ELSE IF Len(t) > 1
        THEN [ok |-> FALSE, value |-> "", error |-> "Extra data"]
        ELSE [ok |-> TRUE, value |-> IF t[1] = "A" THEN "request-1" ELSE "request-2",
              error |-> ""]

\* The `file` argument: None, a path (str), bytes or an open stream; `readable`
\* is whether opening, reading and decoding it succeed.
NoFile == [kind |-> "None", content |-> <<>>, readable |-> TRUE]
FileArg(kind, content, readable) == [kind |-> kind, content |-> content, readable |-> readable]

\* The `requests` argument: None, or a list of request dicts.
NoRequests == [given |-> FALSE, list |-> <<>>]
RequestsArg(list) == [given |-> TRUE, list |-> list]

\* A loop that drops the lines json.loads refuses.
RECURSIVE Batch_parse_lines_skipping(_, _)
Batch_parse_lines_skipping(lines, parsed_requests) ==
    IF lines = <<>> THEN [error |-> NoError, exc |-> NoExc, value |-> parsed_requests]
    ELSE IF strip(Head(lines)) = <<>> \/ ~json_loads(Head(lines)).ok
    THEN Batch_parse_lines_skipping(Tail(lines), parsed_requests)
    ELSE Batch_parse_lines_skipping(Tail(lines),
                                    Append(parsed_requests, json_loads(Head(lines)).value))

\* A loop that hands every line to json.loads, blank or not.
RECURSIVE Batch_parse_lines_strict(_, _)
Batch_parse_lines_strict(lines, parsed_requests) ==
    IF lines = <<>> THEN [error |-> NoError, exc |-> NoExc, value |-> parsed_requests]
    ELSE LET d == json_loads(Head(lines))
         IN  IF d.ok THEN Batch_parse_lines_strict(Tail(lines), Append(parsed_requests, d.value))
             ELSE [error |-> Error("BatchError", "Invalid JSON in batch file: ", d.error, None),
                   exc |-> NoExc, value |-> <<>>]

\* The for loop of _parse_requests over the lines: the requests parsed, or
\* the BatchError of the first line json.loads refuses.
RECURSIVE Batch_parse_lines(_, _)
Batch_parse_lines(lines, parsed_requests) ==
    IF lines = <<>> THEN [error |-> NoError, exc |-> NoExc, value |-> parsed_requests]
    ELSE IF strip(Head(lines)) = <<>> THEN Batch_parse_lines(Tail(lines), parsed_requests)
    ELSE LET d == json_loads(Head(lines))
         IN  IF d.ok THEN Batch_parse_lines(Tail(lines), Append(parsed_requests, d.value))
             ELSE [error |-> Error("BatchError", "Invalid JSON in batch file: ", d.error, None),
                   exc |-> NoExc, value |-> <<>>]

\* A _parse_requests that reads the file whenever one is given and looks at
\* `requests` only without a file.
Batch_parse_requests_file_first(file, requests) ==
    IF file.kind = "None"
    THEN [error |-> NoError, exc |-> NoExc, value |-> requests.list]
    ELSE IF ~file.readable
    THEN [error |-> NoError,
          exc |-> IF file.kind = "bytes" THEN Exc("UnicodeDecodeError", None) ELSE Exc("OSError", None),
          value |-> <<>>]
    ELSE Batch_parse_lines(split(strip(file.content)), <<>>)

Batch_parse_requests(file, requests) ==
    IF requests.given THEN [error |-> NoError, exc |-> NoExc, value |-> requests.list]
    ELSE IF file.kind = "None" THEN [error |-> NoError, exc |-> NoExc, value |-> <<>>]
    ELSE IF ~file.readable
    THEN [error |-> NoError,
          exc |-> IF file.kind = "bytes" THEN Exc("UnicodeDecodeError", None) ELSE Exc("OSError", None),
          value |-> <<>>]
    ELSE Batch_parse_lines(split(strip(file.content)), <<>>)


(***************************************************************************)
(* The provider's other endpoints.  Each gives the exception raised (NoExc *)
(* if none), the answer and the jobs afterwards.                           *)
(***************************************************************************)
\* client.messages.batches.results(job_id): the entries it streams.
ProviderResults(job_id, fault) ==
    IF fault # NoExc THEN [exc |-> fault, entries |-> <<>>]
    ELSE IF jobs[job_id].status = "absent"
    THEN [exc |-> Exc("NotFoundError", "404"), entries |-> <<>>]
    ELSE IF jobs[job_id].status # "ended"
    THEN [exc |-> Exc("AnthropicError", None), entries |-> <<>>]
    ELSE [exc |-> NoExc, entries |-> ResultEntries(jobs[job_id])]

\* client.messages.batches.cancel(job_id).  Whether the provider answers a
\* cancel of an ended batch with the batch or with a 400 is its choice (`strict`).
ProviderCancel(job_id, fault, strict) ==
    LET job == jobs[job_id]
        canceling == [job EXCEPT !.status = "canceling", !.cancelled = TRUE]
    IN  IF fault # NoExc THEN [exc |-> fault, response |-> NoResponse, jobs |-> jobs]
        ELSE IF job.status = "absent"
        THEN [exc |-> Exc("NotFoundError", "404"), response |-> NoResponse, jobs |-> jobs]
        ELSE IF job.status = "ended"
        THEN IF strict
             THEN [exc |-> Exc("BadRequestError", "400"), response |-> NoResponse, jobs |-> jobs]
             ELSE [exc |-> NoExc, response |-> ResponseOf(job_id, job), jobs |-> jobs]
        ELSE [exc |-> NoExc, response |-> ResponseOf(job_id, canceling),
              jobs |-> [jobs EXCEPT ![job_id] = canceling]]

\* client.messages.batches.create(requests=...): a new job, in_progress.
ProviderCreate(batch_requests, fault) ==
    LET job == [status |-> "in_progress", requests |-> batch_requests, order |-> <<>>,
                cancelled |-> FALSE]
    IN  IF fault # NoExc THEN [exc |-> fault, response |-> NoResponse, jobs |-> jobs, nextId |-> nextId]
        ELSE [exc |-> NoExc, response |-> ResponseOf(nextId, job),
              jobs |-> [jobs EXCEPT ![nextId] = job], nextId |-> nextId + 1]

\* The job ids in the account, newest first.
RECURSIVE NewestFirst(_)
NewestFirst(ids) ==
    IF ids = {} THEN <<>>
    ELSE LET m == CHOOSE i \in ids : \A k \in ids : k <= i
         IN  <<m>> \o NewestFirst(ids \ {m})

\* client.messages.batches.list(limit=, after_id=): the SDK's iterator over
\* the pages, which yields every job after the cursor, newest first.
ProviderList(limit, after_id, fault) ==
    LET ids == {i \in JobIds : jobs[i].status # "absent" /\ (after_id = 0 \/ i < after_id)}
        rs(i) == Response(i)
    IN  IF fault # NoExc THEN [exc |-> fault, items |-> <<>>]
        ELSE [exc |-> NoExc, items |-> SeqMap(rs, NewestFirst(ids))]

(***************************************************************************)
(* What an operation gives its caller: a value returned, a library         *)
(* exception raised, or a native exception that propagates as it is.       *)
(***************************************************************************)
Outcome(result, error, met, ret, batches, records, calls, jobs2, nextId2) ==
    [result |-> result, error |-> error, met |-> met, ret |-> ret, batches |-> batches,
     records |-> records, calls |-> calls, jobs |-> jobs2, nextId |-> nextId2]

Return(ret, batches, records, calls, jobs2, nextId2) ==
    Outcome("return", NoError, NoExc, ret, batches, records, calls, jobs2, nextId2)

\* A BatchError the operation raises itself.
RaiseOwn(error, calls) ==
    Outcome("raise", error, NoExc, NoBatchRequest, <<>>, <<>>, calls, jobs, nextId)

CallRetrieve(job_id) == Call("retrieve", job_id, <<>>, 0, 0)
CallResults(job_id) == Call("results", job_id, <<>>, 0, 0)
CallCancel(job_id) == Call("cancel", job_id, <<>>, 0, 0)
CallCreate(batch_requests) == Call("create", 0, batch_requests, 0, 0)
CallList(limit, after_id) == Call("list", 0, <<>>, limit, after_id)


(***************************************************************************)
(* AnthropicBatchProcess: the operations.  `fault` is what the provider    *)
(* call raises (NoExc: it answers), `sdk` whether `import anthropic`       *)
(* succeeds in _handle_exception.                                          *)
(***************************************************************************)
\* A handler that converts the SDK's APIError only.
Batch_except_api_only(e, sdk, calls) ==
    IF isinstance(e, "APIError")
    THEN Outcome("raise", Batch_handle_exception(e, sdk), e, NoBatchRequest, <<>>, <<>>,
                 calls, jobs, nextId)
    ELSE Outcome("leak", NoError, e, NoBatchRequest, <<>>, <<>>, calls, jobs, nextId)

\* except Exception as e: raise self._handle_exception(e).  An exception
\* that is no Exception (a cancellation, an interrupt) is not caught.
Batch_except(e, sdk, calls) ==
    IF isinstance(e, "Exception")
    THEN Outcome("raise", Batch_handle_exception(e, sdk), e, NoBatchRequest, <<>>, <<>>,
                 calls, jobs, nextId)
    ELSE Outcome("leak", NoError, e, NoBatchRequest, <<>>, <<>>, calls, jobs, nextId)

\* A create() that submits whatever it parsed.
Batch_no_requests_unchecked(batch_requests) == FALSE

\* The check of create(): `if not batch_requests`.
Batch_no_requests(batch_requests) == batch_requests = <<>>

Batch_create(file, requests, fault, sdk) ==
    LET batch_requests == Batch_parse_requests(file, requests)
        created == ProviderCreate(batch_requests.value, fault)
    IN  IF batch_requests.error # NoError THEN RaiseOwn(batch_requests.error, <<>>)
        ELSE IF batch_requests.exc # NoExc THEN Batch_except(batch_requests.exc, sdk, <<>>)
        ELSE IF Batch_no_requests(batch_requests.value)
        THEN RaiseOwn(Error("BatchError",
                            "No requests provided. Use 'file' or 'requests' parameter.", "", None),
                      <<>>)
        ELSE IF created.exc # NoExc
        THEN Batch_except(created.exc, sdk, <<CallCreate(batch_requests.value)>>)
        ELSE Return(Batch_to_batch_request(created.response), <<>>, <<>>,
                    <<CallCreate(batch_requests.value)>>, created.jobs, created.nextId)

\* A status() that answers from what create() returned, without a call.
Batch_status_fetch_cached(job_id, fault) ==
    IF jobs[job_id].status = "absent" THEN ProviderRetrieve(job_id, fault)
    ELSE [exc |-> NoExc,
          response |-> ResponseOf(job_id, [jobs[job_id] EXCEPT !.status = "in_progress"])]

\* The fetch of status(): client.messages.batches.retrieve(job_id).
Batch_status_fetch(job_id, fault) == ProviderRetrieve(job_id, fault)

\* A status() that asks the provider to cancel the batch to learn its state.
Batch_status_cancelling(job_id, fault, sdk) ==
    LET cancelled == ProviderCancel(job_id, fault, FALSE)
    IN  IF cancelled.exc # NoExc THEN Batch_except(cancelled.exc, sdk, <<CallCancel(job_id)>>)
        ELSE Return(Batch_to_batch_request(cancelled.response), <<>>, <<>>,
                    <<CallCancel(job_id)>>, cancelled.jobs, nextId)

Batch_status(job_id, fault, sdk) ==
    LET fetched == Batch_status_fetch(job_id, fault)
    IN  IF fetched.exc # NoExc THEN Batch_except(fetched.exc, sdk, <<CallRetrieve(job_id)>>)
        ELSE Return(Batch_to_batch_request(fetched.response), <<>>, <<>>,
                    <<CallRetrieve(job_id)>>, jobs, nextId)

\* A result() that hands the records over newest first.
Batch_records_reversed(entries) ==
    [i \in 1..Len(entries) |->
        [custom_id |-> entries[Len(entries) + 1 - i].custom_id,
         result |-> Batch_format_result_entry(entries[Len(entries) + 1 - i].result)]]

\* The loop of result() over the entries the provider streams.
Batch_records(entries) ==
    [i \in 1..Len(entries) |->
        [custom_id |-> entries[i].custom_id,
         result |-> Batch_format_result_entry(entries[i].result)]]

\* A gate that lets every status the table maps to a terminal one through.
Batch_not_ended_terminal(batch) == batch.processing_status \notin {"ended", "canceling"}

\* The gate of result(): batch.processing_status != "ended".
Batch_not_ended(batch) == batch.processing_status # "ended"

Batch_result(job_id, fault, fault2, sdk) ==
    LET fetched == ProviderRetrieve(job_id, fault)
        batch == fetched.response
        streamed == ProviderResults(job_id, fault2)
    IN  IF fetched.exc # NoExc THEN Batch_except(fetched.exc, sdk, <<CallRetrieve(job_id)>>)
        ELSE IF Batch_not_ended(batch)
        THEN RaiseOwn(Error("BatchError", "Batch job is not completed. Current status: ",
                            batch.processing_status, None),
                      <<CallRetrieve(job_id)>>)
        ELSE IF streamed.exc # NoExc
        THEN Batch_except(streamed.exc, sdk, <<CallRetrieve(job_id), CallResults(job_id)>>)
        ELSE Return(NoBatchRequest, <<>>, Batch_records(streamed.entries),
                    <<CallRetrieve(job_id), CallResults(job_id)>>, jobs, nextId)

Batch_cancel(job_id, fault, strict, sdk) ==
    LET cancelled == ProviderCancel(job_id, fault, strict)
    IN  IF cancelled.exc # NoExc THEN Batch_except(cancelled.exc, sdk, <<CallCancel(job_id)>>)
        ELSE Return(Batch_to_batch_request(cancelled.response), <<>>, <<>>,
                    <<CallCancel(job_id)>>, cancelled.jobs, nextId)

\* The loop of list(): append, and break once len(batches) >= limit.
RECURSIVE Batch_list_loop(_, _, _)
Batch_list_loop(items, batches, limit) ==
    IF items = <<>> THEN batches
    ELSE LET appended == Append(batches, Batch_to_batch_request(Head(items)))
         IN  IF Len(appended) >= limit THEN appended
             ELSE Batch_list_loop(Tail(items), appended, limit)

\* A list() that remembers where its last page ended and goes on from there.
Batch_list_resuming(limit, after, fault, sdk) ==
    LET from == IF firstList.has /\ firstList.limit = limit /\ firstList.after = after
                   /\ firstList.batches # <<>>
                THEN firstList.batches[Len(firstList.batches)].id ELSE after
        page == ProviderList(limit, from, fault)
    IN  IF page.exc # NoExc THEN Batch_except(page.exc, sdk, <<CallList(limit, from)>>)
        ELSE Return(NoBatchRequest, Batch_list_loop(page.items, <<>>, limit), <<>>,
                    <<CallList(limit, from)>>, jobs, nextId)

\* list_kwargs["after_id"] is set only if `after` is truthy (0: no cursor given).
Batch_list(limit, after, fault, sdk) ==
    LET listed == ProviderList(limit, after, fault)
    IN  IF listed.exc # NoExc THEN Batch_except(listed.exc, sdk, <<CallList(limit, after)>>)
        ELSE Return(NoBatchRequest, Batch_list_loop(listed.items, <<>>, limit), <<>>,
                    <<CallList(limit, after)>>, jobs, nextId)


(***************************************************************************)
(* AnthropicAsyncBatchProcess: the same operations as coroutines.  Every   *)
(* provider call is awaited, so `fault` may also be the cancellation of    *)
(* the caller's task, delivered at that await.                             *)
(***************************************************************************)
\* status_map of _to_batch_request, with dict.get's default.
AsyncBatch_status_map(native) ==
    CASE native = "in_progress" -> "IN_PROGRESS"
      [] native = "canceling"   -> "CANCELLED"
      [] native = "ended"       -> "COMPLETED"
      [] OTHER                  -> "IN_PROGRESS"

\* request_counts["total"] of _to_batch_request: the five native counters, summed.
AsyncBatch_total(request_counts) ==
    request_counts.processing + request_counts.succeeded + request_counts.errored
    + request_counts.canceled + request_counts.expired

AsyncBatch_to_batch_request(response) ==
    [id |-> response.id,
     status |-> AsyncBatch_status_map(response.processing_status),
     timestamps |->
         [created_at     |-> IF response.created_at # None THEN response.created_at ELSE "",
          in_progress_at |-> None,
          cancelled_at   |-> response.cancel_initiated_at,
          completed_at   |-> response.ended_at,
          expired_at     |-> response.expires_at,
          failed_at      |-> None,
          finalized_at   |-> response.ended_at],
     completion_window |-> "24h",
     input_file_id |-> "",
     output_file_id |-> None,
     error_file_id |-> None,
     endpoint |-> "/v1/messages",
     request_counts |->
         [total      |-> AsyncBatch_total(response.request_counts),
          completed  |-> response.request_counts.succeeded,
          failed     |-> response.request_counts.errored,
          canceled   |-> response.request_counts.canceled,
          expired    |-> response.request_counts.expired,
          processing |-> response.request_counts.processing]]

\* _handle_exception; `sdk` is whether `import anthropic` succeeds.
AsyncBatch_handle_exception(e, sdk) ==
    IF ~sdk THEN Error("BatchError", "", str(e), None)
    ELSE IF isinstance(e, "AuthenticationError") THEN Error("AuthenticationError", "", str(e), None)
    ELSE IF isinstance(e, "NotFoundError") THEN Error("BatchError", "Batch not found: ", str(e), None)
    ELSE IF isinstance(e, "APIError") THEN Error("APIError", "", str(e), e.status_code)
    ELSE Error("BatchError", "", str(e), None)

AsyncBatch_format_result_entry(result) ==
    [type    |-> result.type,
     message |-> IF result.type = "succeeded" THEN result.message ELSE None,
     error   |-> IF result.type = "errored" THEN result.error ELSE None]

\* The for loop of _parse_requests over the lines: the requests parsed, or
\* the BatchError of the first line json.loads refuses.
RECURSIVE AsyncBatch_parse_lines(_, _)
AsyncBatch_parse_lines(lines, parsed_requests) ==
    IF lines = <<>> THEN [error |-> NoError, exc |-> NoExc, value |-> parsed_requests]
    ELSE IF strip(Head(lines)) = <<>> THEN AsyncBatch_parse_lines(Tail(lines), parsed_requests)
    ELSE LET d == json_loads(Head(lines))
         IN  IF d.ok THEN AsyncBatch_parse_lines(Tail(lines), Append(parsed_requests, d.value))
             ELSE [error |-> Error("BatchError", "Invalid JSON in batch file: ", d.error, None),
                   exc |-> NoExc, value |-> <<>>]

AsyncBatch_parse_requests(file, requests) ==
    IF requests.given THEN [error |-> NoError, exc |-> NoExc, value |-> requests.list]
    ELSE IF file.kind = "None" THEN [error |-> NoError, exc |-> NoExc, value |-> <<>>]
    ELSE IF ~file.readable
    THEN [error |-> NoError,
          exc |-> IF file.kind = "bytes" THEN Exc("UnicodeDecodeError", None) ELSE Exc("OSError", None),
          value |-> <<>>]
    ELSE AsyncBatch_parse_lines(split(strip(file.content)), <<>>)

\* except Exception as e: raise self._handle_exception(e).  An exception
\* that is no Exception (a cancellation, an interrupt) is not caught.
AsyncBatch_except(e, sdk, calls) ==
    IF isinstance(e, "Exception")
    THEN Outcome("raise", AsyncBatch_handle_exception(e, sdk), e, NoBatchRequest, <<>>, <<>>,
                 calls, jobs, nextId)
    ELSE Outcome("leak", NoError, e, NoBatchRequest, <<>>, <<>>, calls, jobs, nextId)

\* The check of create(): `if not batch_requests`.
AsyncBatch_no_requests(batch_requests) == batch_requests = <<>>

AsyncBatch_create(file, requests, fault, sdk) ==
    LET batch_requests == AsyncBatch_parse_requests(file, requests)
        created == ProviderCreate(batch_requests.value, fault)
    IN  IF batch_requests.error # NoError THEN RaiseOwn(batch_requests.error, <<>>)
        ELSE IF batch_requests.exc # NoExc THEN AsyncBatch_except(batch_requests.exc, sdk, <<>>)
        ELSE IF AsyncBatch_no_requests(batch_requests.value)
        THEN RaiseOwn(Error("BatchError",
                            "No requests provided. Use 'file' or 'requests' parameter.", "", None),
                      <<>>)
        ELSE IF created.exc # NoExc
        THEN AsyncBatch_except(created.exc, sdk, <<CallCreate(batch_requests.value)>>)
        ELSE Return(AsyncBatch_to_batch_request(created.response), <<>>, <<>>,
                    <<CallCreate(batch_requests.value)>>, created.jobs, created.nextId)

\* The fetch of status(): client.messages.batches.retrieve(job_id).
AsyncBatch_status_fetch(job_id, fault) == ProviderRetrieve(job_id, fault)

AsyncBatch_status(job_id, fault, sdk) ==
    LET fetched == AsyncBatch_status_fetch(job_id, fault)
    IN  IF fetched.exc # NoExc THEN AsyncBatch_except(fetched.exc, sdk, <<CallRetrieve(job_id)>>)
        ELSE Return(AsyncBatch_to_batch_request(fetched.response), <<>>, <<>>,
                    <<CallRetrieve(job_id)>>, jobs, nextId)

\* The loop of result() over the entries the provider streams.
AsyncBatch_records(entries) ==
    [i \in 1..Len(entries) |->
        [custom_id |-> entries[i].custom_id,
         result |-> AsyncBatch_format_result_entry(entries[i].result)]]

\* A gate that would also let a batch through while it is being cancelled.
AsyncBatch_not_ended_lenient(batch) == batch.processing_status \notin {"ended", "canceling"}

\* The gate of result(): batch.processing_status != "ended".
AsyncBatch_not_ended(batch) == batch.processing_status # "ended"

AsyncBatch_result(job_id, fault, fault2, sdk) ==
    LET fetched == ProviderRetrieve(job_id, fault)
        batch == fetched.response
        streamed == ProviderResults(job_id, fault2)
    IN  IF fetched.exc # NoExc THEN AsyncBatch_except(fetched.exc, sdk, <<CallRetrieve(job_id)>>)
        ELSE IF AsyncBatch_not_ended(batch)
        THEN RaiseOwn(Error("BatchError", "Batch job is not completed. Current status: ",
                            batch.processing_status, None),
                      <<CallRetrieve(job_id)>>)
        ELSE IF streamed.exc # NoExc
        THEN AsyncBatch_except(streamed.exc, sdk, <<CallRetrieve(job_id), CallResults(job_id)>>)
        ELSE Return(NoBatchRequest, <<>>, AsyncBatch_records(streamed.entries),
                    <<CallRetrieve(job_id), CallResults(job_id)>>, jobs, nextId)

AsyncBatch_cancel(job_id, fault, strict, sdk) ==
    LET cancelled == ProviderCancel(job_id, fault, strict)
    IN  IF cancelled.exc # NoExc THEN AsyncBatch_except(cancelled.exc, sdk, <<CallCancel(job_id)>>)
        ELSE Return(AsyncBatch_to_batch_request(cancelled.response), <<>>, <<>>,
                    <<CallCancel(job_id)>>, cancelled.jobs, nextId)

\* The loop of list(): append, and break once len(batches) >= limit.
RECURSIVE AsyncBatch_list_loop(_, _, _)
AsyncBatch_list_loop(items, batches, limit) ==
    IF items = <<>> THEN batches
    ELSE LET appended == Append(batches, AsyncBatch_to_batch_request(Head(items)))
         IN  IF Len(appended) >= limit THEN appended
             ELSE AsyncBatch_list_loop(Tail(items), appended, limit)

\* list_kwargs["after_id"] is set only if `after` is truthy (0: no cursor given).
AsyncBatch_list(limit, after, fault, sdk) ==
    LET listed == ProviderList(limit, after, fault)
    IN  IF listed.exc # NoExc THEN AsyncBatch_except(listed.exc, sdk, <<CallList(limit, after)>>)
        ELSE Return(NoBatchRequest, AsyncBatch_list_loop(listed.items, <<>>, limit), <<>>,
                    <<CallList(limit, after)>>, jobs, nextId)


(***************************************************************************)
(* The provider's file store, as the file adapters see it through the SDK. *)
(***************************************************************************)
Purposes == {"batch", "fine-tune"}

NoStored == [state |-> "absent", purpose |-> None]

\* The metadata the provider answers with.  Anthropic's FileMetadata has no
\* purpose and no status; OpenAI's file object has both.
FileResponse(provider, id, purpose) ==
    [id |-> id, filename |-> "file.jsonl", size |-> 1, created_at |-> "created",
     purpose |-> IF provider = "openai" THEN purpose ELSE None,
     status |-> IF provider = "openai" THEN "uploaded" ELSE None]

NoFileResponse ==
    [id |-> 0, filename |-> None, size |-> 0, created_at |-> None, purpose |-> None,
     status |-> None]

FileObject(id, bytes, created_at, filename, purpose, status) ==
    [id |-> id, bytes |-> bytes, created_at |-> created_at, filename |-> filename,
     purpose |-> purpose, status |-> status, status_details |-> None]

NoFileObject == FileObject(0, 0, None, None, None, None)

\* files.upload / files.create
FilesUpload(provider, purpose, fault) ==
    IF fault # NoExc THEN [exc |-> fault, response |-> NoFileResponse, files |-> files,
                           nextFile |-> nextFile]
    ELSE [exc |-> NoExc, response |-> FileResponse(provider, nextFile, purpose),
          files |-> [files EXCEPT ![nextFile] = [state |-> "stored", purpose |-> purpose]],
          nextFile |-> nextFile + 1]

\* files.retrieve_metadata / files.retrieve
FilesRetrieve(provider, file_id, fault) ==
    IF fault # NoExc THEN [exc |-> fault, response |-> NoFileResponse]
    ELSE IF files[file_id].state = "absent"
    THEN [exc |-> Exc("NotFoundError", "404"), response |-> NoFileResponse]
    ELSE [exc |-> NoExc, response |-> FileResponse(provider, file_id, files[file_id].purpose)]

\* files.download / files.content: the content of the file, named by its id.
FilesContent(file_id, fault) ==
    IF fault # NoExc THEN [exc |-> fault, content |-> 0]
    ELSE IF files[file_id].state = "absent"
    THEN [exc |-> Exc("NotFoundError", "404"), content |-> 0]
    ELSE [exc |-> NoExc, content |-> file_id]

\* files.delete
FilesDelete(file_id, fault) ==
    IF fault # NoExc THEN [exc |-> fault, files |-> files]
    ELSE IF files[file_id].state = "absent"
    THEN [exc |-> Exc("NotFoundError", "404"), files |-> files]
    ELSE [exc |-> NoExc, files |-> [files EXCEPT ![file_id] = NoStored]]

\* files.list: the stored files, newest first; OpenAI filters by purpose
\* when one is passed.
FilesList(provider, purpose, fault) ==
    LET ids == {i \in FileIds : /\ files[i].state = "stored"
                                /\ (purpose = None \/ files[i].purpose = purpose)}
        rs(i) == FileResponse(provider, i, files[i].purpose)
    IN  IF fault # NoExc THEN [exc |-> fault, data |-> <<>>]
        ELSE [exc |-> NoExc, data |-> SeqMap(rs, NewestFirst(ids))]

\* What a file operation gives its caller.
FileOutcome(result, error, met, id, object, content, list, calls, files2, nextFile2) ==
    [result |-> result, error |-> error, met |-> met, id |-> id, object |-> object,
     content |-> content, list |-> list, calls |-> calls, files |-> files2,
     nextFile |-> nextFile2]

FileReturn(id, object, content, list, calls, files2, nextFile2) ==
    FileOutcome("return", NoError, NoExc, id, object, content, list, calls, files2, nextFile2)

FileCall(m, file_id) == Call(m, file_id, <<>>, 0, 0)


(***************************************************************************)
(* AnthropicFileAPI.                                                       *)
(***************************************************************************)
AnthropicFile_to_file_object(response) ==
    FileObject(response.id, response.size, response.created_at, response.filename,
               "user_data", "processed")

AnthropicFile_handle_exception(e, sdk) ==
    IF ~sdk THEN Error("FileError", "", str(e), None)
    ELSE IF isinstance(e, "AuthenticationError") THEN Error("AuthenticationError", "", str(e), None)
    ELSE IF isinstance(e, "NotFoundError") THEN Error("FileError", "File not found: ", str(e), None)
    ELSE IF isinstance(e, "BadRequestError") THEN Error("FileError", "Invalid request: ", str(e), None)
    ELSE IF isinstance(e, "APIError") THEN Error("APIError", "", str(e), e.status_code)
    ELSE Error("FileError", "", str(e), None)

\* except Exception as e: raise self._handle_exception(e)
AnthropicFile_except(e, sdk, calls) ==
    IF isinstance(e, "Exception")
    THEN FileOutcome("raise", AnthropicFile_handle_exception(e, sdk), e, 0, NoFileObject, 0,
                     <<>>, calls, files, nextFile)
    ELSE FileOutcome("leak", NoError, e, 0, NoFileObject, 0, <<>>, calls, files, nextFile)

\* The SDK reads a path it is given; a path that cannot be read fails there.
AnthropicFile_upload(file, purpose, fault, sdk) ==
    LET unreadable == file.kind = "str" /\ ~file.readable
        uploaded == FilesUpload("anthropic", purpose,
                                IF fault = NoExc /\ unreadable THEN Exc("OSError", None) ELSE fault)
    IN  IF uploaded.exc # NoExc
        THEN AnthropicFile_except(uploaded.exc, sdk, <<FileCall("files.upload", 0)>>)
        ELSE FileReturn(uploaded.response.id, NoFileObject, 0, <<>>,
                        <<FileCall("files.upload", 0)>>, uploaded.files, uploaded.nextFile)

\* A retrieve() that answers from the metadata upload() once got for the id,
\* without a call.
AnthropicFile_retrieve_cached(file_id, fault, sdk) ==
    IF file_id < nextFile
    THEN FileReturn(0, AnthropicFile_to_file_object(FileResponse("anthropic", file_id, None)),
                    0, <<>>, <<>>, files, nextFile)
    ELSE AnthropicFile_except(Exc("NotFoundError", "404"), sdk, <<>>)

AnthropicFile_retrieve(file_id, fault, sdk) ==
    LET response == FilesRetrieve("anthropic", file_id, fault)
    IN  IF response.exc # NoExc
        THEN AnthropicFile_except(response.exc, sdk, <<FileCall("files.retrieve_metadata", file_id)>>)
        ELSE FileReturn(0, AnthropicFile_to_file_object(response.response), 0, <<>>,
                        <<FileCall("files.retrieve_metadata", file_id)>>, files, nextFile)

AnthropicFile_download(file_id, fault, sdk) ==
    LET response == FilesContent(file_id, fault)
    IN  IF response.exc # NoExc
        THEN AnthropicFile_except(response.exc, sdk, <<FileCall("files.download", file_id)>>)
        ELSE FileReturn(0, NoFileObject, response.content, <<>>,
                        <<FileCall("files.download", file_id)>>, files, nextFile)

AnthropicFile_delete(file_id, fault, sdk) ==
    LET deleted == FilesDelete(file_id, fault)
    IN  IF deleted.exc # NoExc
        THEN AnthropicFile_except(deleted.exc, sdk, <<FileCall("files.delete", file_id)>>)
        ELSE FileReturn(0, NoFileObject, 0, <<>>, <<FileCall("files.delete", file_id)>>,
                        deleted.files, nextFile)

\* `purpose` is accepted and not passed on.
AnthropicFile_list(purpose, fault, sdk) ==
    LET listed == FilesList("anthropic", None, fault)
    IN  IF listed.exc # NoExc
        THEN AnthropicFile_except(listed.exc, sdk, <<FileCall("files.list", 0)>>)
        ELSE FileReturn(0, NoFileObject, 0, SeqMap(AnthropicFile_to_file_object, listed.data),
                        <<FileCall("files.list", 0)>>, files, nextFile)


(***************************************************************************)
(* AnthropicAsyncFileAPI: the same operations as coroutines.               *)
(***************************************************************************)
AnthropicAsyncFile_to_file_object(response) ==
    FileObject(response.id, response.size, response.created_at, response.filename,
               "user_data", "processed")

AnthropicAsyncFile_handle_exception(e, sdk) ==
    IF ~sdk THEN Error("FileError", "", str(e), None)
    ELSE IF isinstance(e, "AuthenticationError") THEN Error("AuthenticationError", "", str(e), None)
    ELSE IF isinstance(e, "NotFoundError") THEN Error("FileError", "File not found: ", str(e), None)
    ELSE IF isinstance(e, "BadRequestError") THEN Error("FileError", "Invalid request: ", str(e), None)
    ELSE IF isinstance(e, "APIError") THEN Error("APIError", "", str(e), e.status_code)
    ELSE Error("FileError", "", str(e), None)

\* except Exception as e: raise self._handle_exception(e)
AnthropicAsyncFile_except(e, sdk, calls) ==
    IF isinstance(e, "Exception")
    THEN FileOutcome("raise", AnthropicAsyncFile_handle_exception(e, sdk), e, 0, NoFileObject, 0,
                     <<>>, calls, files, nextFile)
    ELSE FileOutcome("leak", NoError, e, 0, NoFileObject, 0, <<>>, calls, files, nextFile)

\* The SDK reads a path it is given; a path that cannot be read fails there.
AnthropicAsyncFile_upload(file, purpose, fault, sdk) ==
    LET unreadable == file.kind = "str" /\ ~file.readable
        uploaded == FilesUpload("anthropic", purpose,
                                IF fault = NoExc /\ unreadable THEN Exc("OSError", None) ELSE fault)
    IN  IF uploaded.exc # NoExc
        THEN AnthropicAsyncFile_except(uploaded.exc, sdk, <<FileCall("files.upload", 0)>>)
        ELSE FileReturn(uploaded.response.id, NoFileObject, 0, <<>>,
                        <<FileCall("files.upload", 0)>>, uploaded.files, uploaded.nextFile)

AnthropicAsyncFile_retrieve(file_id, fault, sdk) ==
    LET response == FilesRetrieve("anthropic", file_id, fault)
    IN  IF response.exc # NoExc
        THEN AnthropicAsyncFile_except(response.exc, sdk, <<FileCall("files.retrieve_metadata", file_id)>>)
        ELSE FileReturn(0, AnthropicAsyncFile_to_file_object(response.response), 0, <<>>,
                        <<FileCall("files.retrieve_metadata", file_id)>>, files, nextFile)

AnthropicAsyncFile_download(file_id, fault, sdk) ==
    LET response == FilesContent(file_id, fault)
    IN  IF response.exc # NoExc
        THEN AnthropicAsyncFile_except(response.exc, sdk, <<FileCall("files.download", file_id)>>)
        ELSE FileReturn(0, NoFileObject, response.content, <<>>,
                        <<FileCall("files.download", file_id)>>, files, nextFile)

AnthropicAsyncFile_delete(file_id, fault, sdk) ==
    LET deleted == FilesDelete(file_id, fault)
    IN  IF deleted.exc # NoExc
        THEN AnthropicAsyncFile_except(deleted.exc, sdk, <<FileCall("files.delete", file_id)>>)
        ELSE FileReturn(0, NoFileObject, 0, <<>>, <<FileCall("files.delete", file_id)>>,
                        deleted.files, nextFile)

\* `purpose` is accepted and not passed on.
AnthropicAsyncFile_list(purpose, fault, sdk) ==
    LET listed == FilesList("anthropic", None, fault)
    IN  IF listed.exc # NoExc
        THEN AnthropicAsyncFile_except(listed.exc, sdk, <<FileCall("files.list", 0)>>)
        ELSE FileReturn(0, NoFileObject, 0, SeqMap(AnthropicAsyncFile_to_file_object, listed.data),
                        <<FileCall("files.list", 0)>>, files, nextFile)


(***************************************************************************)
(* OpenAIFileAPI.                                                          *)
(***************************************************************************)
\* The FileObject retrieve() and list() build from the provider's object.
OpenAIFile_file_object(response) ==
    FileObject(response.id, response.size, response.created_at, response.filename,
               response.purpose, response.status)

OpenAIFile_handle_exception(e, sdk) ==
    IF ~sdk THEN Error("FileError", "", str(e), None)
    ELSE IF isinstance(e, "AuthenticationError") THEN Error("AuthenticationError", "", str(e), None)
    ELSE IF isinstance(e, "NotFoundError") THEN Error("FileError", "File not found: ", str(e), None)
    ELSE IF isinstance(e, "APIError") THEN Error("APIError", "", str(e), e.status_code)
    ELSE Error("FileError", "", str(e), None)

\* except Exception as e: raise self._handle_exception(e)
OpenAIFile_except(e, sdk, calls) ==
    IF isinstance(e, "Exception")
    THEN FileOutcome("raise", OpenAIFile_handle_exception(e, sdk), e, 0, NoFileObject, 0,
                     <<>>, calls, files, nextFile)
    ELSE FileOutcome("leak", NoError, e, 0, NoFileObject, 0, <<>>, calls, files, nextFile)

\* A path is opened here, before the provider is called.
OpenAIFile_upload(file, purpose, fault, sdk) ==
    LET uploaded == FilesUpload("openai", purpose, fault)
    IN  IF file.kind = "str" /\ ~file.readable
        THEN OpenAIFile_except(Exc("OSError", None), sdk, <<>>)
        ELSE IF uploaded.exc # NoExc
        THEN OpenAIFile_except(uploaded.exc, sdk, <<FileCall("files.create", 0)>>)
        ELSE FileReturn(uploaded.response.id, NoFileObject, 0, <<>>,
                        <<FileCall("files.create", 0)>>, uploaded.files, uploaded.nextFile)

OpenAIFile_retrieve(file_id, fault, sdk) ==
    LET response == FilesRetrieve("openai", file_id, fault)
    IN  IF response.exc # NoExc
        THEN OpenAIFile_except(response.exc, sdk, <<FileCall("files.retrieve", file_id)>>)
        ELSE FileReturn(0, OpenAIFile_file_object(response.response), 0, <<>>,
                        <<FileCall("files.retrieve", file_id)>>, files, nextFile)

OpenAIFile_download(file_id, fault, sdk) ==
    LET response == FilesContent(file_id, fault)
    IN  IF response.exc # NoExc
        THEN OpenAIFile_except(response.exc, sdk, <<FileCall("files.content", file_id)>>)
        ELSE FileReturn(0, NoFileObject, response.content, <<>>,
                        <<FileCall("files.content", file_id)>>, files, nextFile)

OpenAIFile_delete(file_id, fault, sdk) ==
    LET deleted == FilesDelete(file_id, fault)
    IN  IF deleted.exc # NoExc
        THEN OpenAIFile_except(deleted.exc, sdk, <<FileCall("files.delete", file_id)>>)
        ELSE FileReturn(0, NoFileObject, 0, <<>>, <<FileCall("files.delete", file_id)>>,
                        deleted.files, nextFile)

\* kwargs["purpose"] is set only if `purpose` is given.
OpenAIFile_list(purpose, fault, sdk) ==
    LET response == FilesList("openai", purpose, fault)
    IN  IF response.exc # NoExc
        THEN OpenAIFile_except(response.exc, sdk, <<FileCall("files.list", 0)>>)
        ELSE FileReturn(0, NoFileObject, 0, SeqMap(OpenAIFile_file_object, response.data),
                        <<FileCall("files.list", 0)>>, files, nextFile)


(***************************************************************************)
(* GroqBatchProcess (OpenAI-compatible).  The adapter's code is outside    *)
(* the sources at hand: its status table is taken from the specification   *)
(* (section 4.4) and its calls from the adapter's tests.                   *)
(***************************************************************************)
OpenAINative == {"validating", "in_progress", "finalizing", "completed", "failed",
                 "expired", "cancelling", "cancelled"}

\* The job lifecycle of section 4.4, in native terms.
OpenAILifecycle ==
    [validating  |-> {"in_progress", "failed", "cancelling"},
     in_progress |-> {"finalizing", "failed", "expired", "cancelling"},
     finalizing  |-> {"completed"},
     cancelling  |-> {"cancelled"},
     completed   |-> {},
     failed      |-> {},
     expired     |-> {},
     cancelled   |-> {}]

GroqResponse(id, job) == [id |-> id, status |-> job.status]

Groq_status_map(native) ==
    CASE native = "validating"  -> "VALIDATING"
      [] native = "in_progress" -> "IN_PROGRESS"
      [] native = "finalizing"  -> "FINALIZING"
      [] native = "completed"   -> "COMPLETED"
      [] native = "failed"      -> "FAILED"
      [] native = "expired"     -> "EXPIRED"
      [] native = "cancelling"  -> "CANCELLING"
      [] native = "cancelled"   -> "CANCELLED"

Groq_to_batch_request(response) ==
    [NoBatchRequest EXCEPT !.id = response.id,
                           !.status = Groq_status_map(response.status),
                           !.completion_window = "24h"]

\* create(file=bytes): the payload is uploaded, then the batch is created.
Groq_create(file) ==
    LET job == [NoJob EXCEPT !.status = "validating"]
    IN  Return(Groq_to_batch_request(GroqResponse(nextId, job)), <<>>, <<>>,
               <<FileCall("files.create", 0), Call("batches.create", 0, <<>>, 0, 0)>>,
               [jobs EXCEPT ![nextId] = job], nextId + 1)

\* status(job_id): client.batches.retrieve(job_id), mapped.
Groq_status(job_id) ==
    Return(Groq_to_batch_request(GroqResponse(job_id, jobs[job_id])), <<>>, <<>>,
           <<Call("batches.retrieve", job_id, <<>>, 0, 0)>>, jobs, nextId)


(***************************************************************************)
(* The connector and its accessors.  A connector object holds one field    *)
(* per adapter, None (0) until the accessor is first called; objects are   *)
(* named by the order of their construction.  `built` counts the           *)
(* constructor calls per class, `handed` collects what each accessor has   *)
(* returned and `count` how often it was called; `clients` and `reads` are  *)
(* the same for the async_client property.                                 *)
(***************************************************************************)
Accessors == {"chat", "batch", "file", "async_chat", "async_batch", "async_file"}

FieldOf ==
    [chat |-> "_chat", batch |-> "_batch", file |-> "_file", async_chat |-> "_async_chat",
     async_batch |-> "_async_batch", async_file |-> "_async_file"]

ClassOf ==
    [chat |-> "ChatCompletion", batch |-> "BatchProcess", file |-> "FileAPI",
     async_chat |-> "AsyncChatCompletion", async_batch |-> "AsyncBatchProcess",
     async_file |-> "AsyncFileAPI"]

Classes == {ClassOf[a] : a \in Accessors} \cup {"AsyncClient"}

\* The connector as __init__ leaves it: the sync client built, no adapter yet.
NewConnector ==
    [fields  |-> [_chat |-> 0, _batch |-> 0, _file |-> 0, _async_client |-> 0,
                  _async_chat |-> 0, _async_batch |-> 0, _async_file |-> 0],
     objects |-> 0,
     built   |-> [c \in Classes |-> 0],
     handed  |-> [a \in Accessors |-> {}],
     count   |-> [a \in Accessors |-> 0],
     clients |-> {},
     reads   |-> 0]

\* self.<field> = <cls>(...): a new object.
Construct(c, field, cls) ==
    [c EXCEPT !.fields[field] = c.objects + 1,
              !.objects = c.objects + 1,
              !.built[cls] = c.built[cls] + 1]

\* An accessor that builds its adapter on every call.
Connector_chat_uncached(c) ==
    LET c1 == Construct(c, "_chat", "ChatCompletion")
    IN  [conn |-> c1, ret |-> c1.fields._chat]

Connector_chat(c) ==
    LET c1 == IF c.fields._chat = 0 THEN Construct(c, "_chat", "ChatCompletion") ELSE c
    IN  [conn |-> c1, ret |-> c1.fields._chat]

Connector_batch(c) ==
    LET c1 == IF c.fields._batch = 0 THEN Construct(c, "_batch", "BatchProcess") ELSE c
    IN  [conn |-> c1, ret |-> c1.fields._batch]

Connector_file(c) ==
    LET c1 == IF c.fields._file = 0 THEN Construct(c, "_file", "FileAPI") ELSE c
    IN  [conn |-> c1, ret |-> c1.fields._file]

\* An async_client that builds a client on every read.
Connector_async_client_rebuilt(c) ==
    LET c1 == Construct(c, "_async_client", "AsyncClient")
    IN  [conn |-> c1, ret |-> c1.fields._async_client]

\* The async side, as the connector tests fix it: the async client is built
\* when first read, and each async adapter when first asked for.
Connector_async_client(c) ==
    LET c1 == IF c.fields._async_client = 0
              THEN Construct(c, "_async_client", "AsyncClient") ELSE c
    IN  [conn |-> c1, ret |-> c1.fields._async_client]

Connector_async_chat(c) ==
    LET c1 == IF c.fields._async_chat = 0
              THEN Construct(Connector_async_client(c).conn, "_async_chat", "AsyncChatCompletion")
              ELSE c
    IN  [conn |-> c1, ret |-> c1.fields._async_chat]

Connector_async_batch(c) ==
    LET c1 == IF c.fields._async_batch = 0
              THEN Construct(Connector_async_client(c).conn, "_async_batch", "AsyncBatchProcess")
              ELSE c
    IN  [conn |-> c1, ret |-> c1.fields._async_batch]

Connector_async_file(c) ==
    LET c1 == IF c.fields._async_file = 0
              THEN Construct(Connector_async_client(c).conn, "_async_file", "AsyncFileAPI")
              ELSE c
    IN  [conn |-> c1, ret |-> c1.fields._async_file]


(***************************************************************************)
(* Constructing a connector: cls(config), with the environment variable of *)
(* the provider and whether the provider's SDK package could be imported.  *)
(***************************************************************************)
ApiKeys == {None, "", "config-key"}
EnvKeys == {None, "", "env-key"}
BaseUrls == {None, "https://custom.api.com"}

\* The configuration mapping, by what config.get() answers; a config of
\* None is the empty mapping.
Config(api_key, base_url) == [api_key |-> api_key, base_url |-> base_url]
NoConfig == Config(None, None)
Configs == {Config(k, u) : k \in ApiKeys, u \in BaseUrls}

\* Python's truth value of an optional string, and `a or b`.
truthy(v) == v \notin {None, ""}
py_or(a, b) == IF truthy(a) THEN a ELSE b

\* A step of a construction: _validate_config, or the call of a client class
\* with its keyword arguments (None: the keyword is not passed).
Step(m, api_key, base_url) == [m |-> m, api_key |-> api_key, base_url |-> base_url]

\* What a construction gives its caller.
Built(calls) == [result |-> "return", error |-> NoError, met |-> NoExc, calls |-> calls]
Refused(kind, msg, calls) ==
    [result |-> "raise", error |-> Error(kind, msg, "", None), met |-> NoExc, calls |-> calls]

\* The methods LLMConnector declares abstract, and the ones each class defines.
AbstractMethods == {"chat", "batch", "file", "async_chat", "async_batch", "async_file"}

MethodsOf ==
    [OpenAIConnector |-> {"__init__", "_validate_config", "chat", "batch", "file", "client"},
     GroqConnector   |-> {"__init__", "_validate_config", "chat", "batch", "file", "client",
                          "async_chat", "async_batch", "async_file", "async_client"}]

ConnectorClasses == DOMAIN MethodsOf

OpenAIConnector_validate_config(config, environ) ==
    IF ~truthy(py_or(config.api_key, environ))
    THEN Error("AuthenticationError", "OpenAI API key not found. ", "", None)
    ELSE NoError

\* LLMConnector.__init__: self.config = config or {}; self._validate_config()
OpenAIConnector_super_init(config, environ) ==
    [error |-> OpenAIConnector_validate_config(config, environ),
     calls |-> <<Step("_validate_config", None, None)>>]

OpenAIConnector_init(config, environ, available) ==
    LET validated == OpenAIConnector_super_init(config, environ)
        api_key == py_or(config.api_key, environ)
        client == Step("OpenAI", IF truthy(api_key) THEN api_key ELSE None,
                       IF truthy(config.base_url) THEN config.base_url ELSE None)
    IN  IF ~available
        THEN Refused("ProviderImportError", "OpenAI package is not installed. ", <<>>)
        ELSE IF validated.error # NoError
        THEN [result |-> "raise", error |-> validated.error, met |-> NoExc,
              calls |-> validated.calls]
        ELSE Built(Append(validated.calls, client))

\* GroqConnector.__init__, as the tests of the connector fix it: the same
\* steps, with GROQ_API_KEY and the Groq client; AsyncGroq is not called.
GroqConnector_init(config, environ, available) ==
    LET api_key == py_or(config.api_key, environ)
        client == Step("Groq", api_key,
                       IF truthy(config.base_url) THEN config.base_url ELSE None)
    IN  IF ~available
        THEN Refused("ProviderImportError", "Groq package is not installed. ", <<>>)
        ELSE IF ~truthy(api_key)
        THEN Refused("AuthenticationError", "Groq API key not found. ",
                     <<Step("_validate_config", None, None)>>)
        ELSE Built(<<Step("_validate_config", None, None), client>>)

\* cls(config).  A class that leaves an abstract method of its base
\* undefined cannot be instantiated: object.__new__ raises TypeError, and
\* __init__ is not run.
Connector_new(cls, config, environ, available) ==
    IF AbstractMethods \ MethodsOf[cls] # {}
    THEN [result |-> "leak", error |-> NoError, met |-> Exc("TypeError", None), calls |-> <<>>]
    ELSE IF cls = "OpenAIConnector" THEN OpenAIConnector_init(config, environ, available)
    ELSE GroqConnector_init(config, environ, available)


(***************************************************************************)
(* The state machine: the caller's calls and the provider's own moves.     *)
(* One adapter is under test in a behaviour; the adapters keep no state of *)
(* their own, so the state is the provider's and what the caller observed. *)
(***************************************************************************)
BatchAdapters == {"AnthropicBatchProcess", "AnthropicAsyncBatchProcess"}

\* The adapter object as __init__ leaves it: self._client = client.
NewAdapter == [_client |-> "client"]

\* collected_tool_calls = {}
NoCollected == <<>>

\* The threads that share the connector.  A thread: its position in the
\* accessor it called, the adapter it constructed and the one it returned.
ThreadIds == {1, 2}
NoThread == [pc |-> "none", accessor |-> "none", made |-> 0, got |-> 0]
NoThreads == [t \in ThreadIds |-> NoThread]

\* The coroutines gathered on the async adapter: a call and another one that
\* runs between its steps.
TaskIds == {1, 2}

(***************************************************************************)
(* Coroutines of AnthropicAsyncBatchProcess.  A call of an async method    *)
(* makes a coroutine; it runs from its start to its first await, where it  *)
(* has issued a provider call and is suspended, and from each answer to    *)
(* its next await or to its end.  Between two of its steps any other       *)
(* coroutine of the same adapter object may run.                           *)
(***************************************************************************)
TaskOps == {"status", "result", "cancel"}

NoCall == Call("none", 0, <<>>, 0, 0)

\* The answer to a provider call: the exception raised, or what it returned.
Answer(exc, response, entries) == [exc |-> exc, response |-> response, entries |-> entries]
NoAnswer == Answer(NoExc, NoResponse, <<>>)

\* What an ended coroutine gave the caller awaiting it.
TaskOut(o) ==
    [result |-> o.result, error |-> o.error, met |-> o.met, ret |-> o.ret,
     records |-> o.records]

NoOut ==
    [result |-> "none", error |-> NoError, met |-> NoExc, ret |-> NoBatchRequest,
     records |-> <<>>]

\* A coroutine: its position, the method and argument it was called with,
\* the call it awaits, the answer waiting for it, and what it ended with.
\* `got` and `raced` are history: the calls it made with their answers, and
\* whether another coroutine ran while it was suspended.
NoTask ==
    [pc |-> "none", op |-> "none", job_id |-> 0, call |-> NoCall, answered |-> FALSE,
     inbox |-> NoAnswer, out |-> NoOut, got |-> <<>>, raced |-> FALSE]

NoTasks == [t \in TaskIds |-> NoTask]

\* coroutine = adapter.<op>(job_id): nothing of it has run yet.
Started(op, job_id) == [NoTask EXCEPT !.pc = "start", !.op = op, !.job_id = job_id]

\* `await self._client...`: the call is issued and the coroutine suspended.
Suspend(t, pc, call) == [t EXCEPT !.pc = pc, !.call = call, !.answered = FALSE]

\* return, or raise: the coroutine ends.
Finish(t, o) ==
    [t EXCEPT !.pc = "done", !.call = NoCall, !.answered = FALSE, !.out = TaskOut(o)]

\* A step that keeps the job id in an attribute of the adapter and takes it
\* from there when it asks for the results.
AsyncBatch_step_sharing(me, t, answer) ==
    LET raised == AsyncBatch_except(answer.exc, TRUE, <<>>)
        entered == [_client |-> me._client, _job_id |-> t.job_id]
    IN  CASE t.pc = "start" /\ t.op \in {"status", "result"} ->
                [self |-> entered, task |-> Suspend(t, "await1", CallRetrieve(t.job_id))]
          [] t.pc = "start" /\ t.op = "cancel" ->
                [self |-> entered, task |-> Suspend(t, "await1", CallCancel(t.job_id))]
          [] t.pc \in {"await1", "await2"} /\ answer.exc # NoExc ->
                [self |-> me, task |-> Finish(t, raised)]
          [] t.pc = "await1" /\ answer.exc = NoExc /\ t.op \in {"status", "cancel"} ->
                [self |-> me,
                 task |-> Finish(t, Return(AsyncBatch_to_batch_request(answer.response),
                                           <<>>, <<>>, <<>>, jobs, nextId))]
          [] t.pc = "await1" /\ answer.exc = NoExc /\ t.op = "result" ->
                [self |-> me,
                 task |-> IF AsyncBatch_not_ended(answer.response)
                          THEN Finish(t, RaiseOwn(Error("BatchError",
                                   "Batch job is not completed. Current status: ",
                                   answer.response.processing_status, None), <<>>))
                          ELSE Suspend(t, "await2", CallResults(me._job_id))]
          [] t.pc = "await2" /\ answer.exc = NoExc ->
                [self |-> me,
                 task |-> Finish(t, Return(NoBatchRequest, <<>>,
                                           AsyncBatch_records(answer.entries), <<>>,
                                           jobs, nextId))]

\* One step of a coroutine of status(), result() or cancel(): from its start,
\* or from the answer to the call it awaited, to its next await or its end.
\* The entries result() iterates over arrive as one answer.
\* Gives the coroutine afterwards and the attributes of the adapter object,
\* which no method assigns to.
AsyncBatch_step(me, t, answer) ==
    LET raised == AsyncBatch_except(answer.exc, TRUE, <<>>)
    IN  CASE t.pc = "start" /\ t.op \in {"status", "result"} ->
                [self |-> me, task |-> Suspend(t, "await1", CallRetrieve(t.job_id))]
          [] t.pc = "start" /\ t.op = "cancel" ->
                [self |-> me, task |-> Suspend(t, "await1", CallCancel(t.job_id))]
          [] t.pc \in {"await1", "await2"} /\ answer.exc # NoExc ->
                [self |-> me, task |-> Finish(t, raised)]
          [] t.pc = "await1" /\ answer.exc = NoExc /\ t.op \in {"status", "cancel"} ->
                [self |-> me,
                 task |-> Finish(t, Return(AsyncBatch_to_batch_request(answer.response),
                                           <<>>, <<>>, <<>>, jobs, nextId))]
          [] t.pc = "await1" /\ answer.exc = NoExc /\ t.op = "result" ->
                [self |-> me,
                 task |-> IF AsyncBatch_not_ended(answer.response)
                          THEN Finish(t, RaiseOwn(Error("BatchError",
                                   "Batch job is not completed. Current status: ",
                                   answer.response.processing_status, None), <<>>))
                          ELSE Suspend(t, "await2", CallResults(t.job_id))]
          [] t.pc = "await2" /\ answer.exc = NoExc ->
                [self |-> me,
                 task |-> Finish(t, Return(NoBatchRequest, <<>>,
                                           AsyncBatch_records(answer.entries), <<>>,
                                           jobs, nextId))]

FileAdapters == {"AnthropicFileAPI", "AnthropicAsyncFileAPI", "OpenAIFileAPI"}
AsyncAdapters == {"AnthropicAsyncBatchProcess", "AnthropicAsyncFileAPI"}
Adapters == BatchAdapters \cup FileAdapters \cup {"GroqBatchProcess"}

\* What a provider call of the adapter under test can meet.  Only an
\* awaited call can be cancelled.
Faults == CallFaults \cup (IF adapter \in AsyncAdapters THEN {Cancellation} ELSE {})
FileFaults == Faults \cup {Exc("BadRequestError", "400")}

\* History of listings.  `on`: whether it is kept at all (it is in SpecList);
\* `has`: a list() has returned since the job list last changed, with these
\* arguments and this result.
NoListed == [on |-> FALSE, has |-> FALSE, limit |-> 0, after |-> 0, batches |-> <<>>]

\* The job list has changed: what was listed before says nothing any more.
Forgotten == [NoListed EXCEPT !.on = firstList.on]

NoOp ==
    [op |-> "none", file |-> NoFile, requests |-> NoRequests, job |-> 0, limit |-> 0,
     after |-> 0, purpose |-> None, result |-> "none", error |-> NoError, met |-> NoExc,
     ret |-> NoBatchRequest, batches |-> <<>>, records |-> <<>>,
     id |-> 0, object |-> NoFileObject, content |-> 0, list |-> <<>>, calls |-> <<>>,
     config |-> NoConfig, environ |-> None, available |-> TRUE, before |-> NoListed,
     missing |-> None]

\* The BatchRequests an outcome hands to the caller.
Returned(o) ==
    IF o.result # "return" THEN {}
    ELSE {o.batches[i] : i \in DOMAIN o.batches}
         \cup (IF o.ret = NoBatchRequest THEN {} ELSE {o.ret})

\* History: the first terminal status each job was reported with.
NoteTerminal(o) ==
    [j \in JobIds |->
        IF firstTerminal[j] # None THEN firstTerminal[j]
        ELSE IF \E b \in Returned(o) : b.id = j /\ b.status \in TerminalStatuses
        THEN (CHOOSE b \in Returned(o) : b.id = j /\ b.status \in TerminalStatuses).status
        ELSE None]

\* History: the first listing since the job list last changed.
NoteListed(op, limit, after, o) ==
    IF ~firstList.on THEN firstList
    ELSE IF o.jobs # jobs THEN Forgotten
    ELSE IF op = "list" /\ o.result = "return" /\ ~firstList.has
    THEN [on |-> TRUE, has |-> TRUE, limit |-> limit, after |-> after, batches |-> o.batches]
    ELSE firstList

\* The caller makes a batch call, which completes with outcome `o`.
Complete(op, file, requests, job, limit, after, o, sdk) ==
    /\ lastOp = NoOp
    /\ sdk \/ o.met.cls \notin SdkClasses
    /\ lastOp' = [NoOp EXCEPT !.op = op, !.file = file, !.requests = requests, !.job = job,
                              !.limit = limit, !.after = after, !.result = o.result,
                              !.error = o.error, !.met = o.met, !.ret = o.ret,
                              !.batches = o.batches, !.records = o.records,
                              !.calls = o.calls,
                              !.before = IF op = "list" THEN firstList ELSE NoListed]
    /\ jobs' = o.jobs
    /\ nextId' = o.nextId
    /\ firstTerminal' = NoteTerminal(o)
    /\ firstList' = NoteListed(op, limit, after, o)
    /\ UNCHANGED <<collected, arrived, threads, adapter, conn, files, nextFile, tasks, self>>

\* The caller makes a file call, which completes with outcome `o`.
CompleteFile(op, file, file_id, purpose, o, sdk) ==
    /\ lastOp = NoOp
    /\ sdk \/ o.met.cls \notin SdkClasses
    /\ lastOp' = [NoOp EXCEPT !.op = op, !.file = file, !.job = file_id, !.purpose = purpose,
                              !.result = o.result, !.error = o.error, !.met = o.met,
                              !.id = o.id, !.object = o.object, !.content = o.content,
                              !.list = o.list, !.calls = o.calls]
    /\ files' = o.files
    /\ nextFile' = o.nextFile
    /\ UNCHANGED <<collected, arrived, threads, adapter, conn, jobs, nextId, firstTerminal, firstList, tasks, self>>

\* Whether the SDK package can be imported in _handle_exception matters
\* only once an exception that is not the SDK's own reaches it.
SdkChoices(fault) == IF fault.cls = "AttributeError" THEN BOOLEAN ELSE {TRUE}

\* The (file, requests) arguments create() is called with here.
CreateArgs ==
    { <<NoFile, NoRequests>>,
      <<NoFile, RequestsArg(<<>>)>>,
      <<NoFile, RequestsArg(<<"request-1", "request-2">>)>>,
      <<FileArg("bytes", <<"A", "NL", "B">>, TRUE), NoRequests>>,
      <<FileArg("bytes", <<"A", "NL", "x">>, TRUE), NoRequests>>,
      <<FileArg("str", <<>>, FALSE), NoRequests>>,
      <<FileArg("bytes", <<"A", "NL", "B">>, TRUE), RequestsArg(<<>>)>> }

\* The file arguments upload() is called with here.
UploadArgs ==
    { FileArg("str", <<"A">>, TRUE), FileArg("str", <<>>, FALSE),
      FileArg("bytes", <<"A">>, TRUE), FileArg("stream", <<"A">>, TRUE) }

\* The call goes to the method of the adapter under test.
CreateOf(file, requests, fault, sdk) ==
    IF adapter = "AnthropicBatchProcess" THEN Batch_create(file, requests, fault, sdk)
    ELSE AsyncBatch_create(file, requests, fault, sdk)

StatusOf(job_id, fault, sdk) ==
    IF adapter = "AnthropicBatchProcess" THEN Batch_status(job_id, fault, sdk)
    ELSE AsyncBatch_status(job_id, fault, sdk)

ResultOf(job_id, fault, fault2, sdk) ==
    IF adapter = "AnthropicBatchProcess" THEN Batch_result(job_id, fault, fault2, sdk)
    ELSE AsyncBatch_result(job_id, fault, fault2, sdk)

CancelOf(job_id, fault, strict, sdk) ==
    IF adapter = "AnthropicBatchProcess" THEN Batch_cancel(job_id, fault, strict, sdk)
    ELSE AsyncBatch_cancel(job_id, fault, strict, sdk)

ListOf(limit, after, fault, sdk) ==
    IF adapter = "AnthropicBatchProcess" THEN Batch_list(limit, after, fault, sdk)
    ELSE AsyncBatch_list(limit, after, fault, sdk)

UploadOf(file, purpose, fault, sdk) ==
    CASE adapter = "AnthropicFileAPI" -> AnthropicFile_upload(file, purpose, fault, sdk)
      [] adapter = "AnthropicAsyncFileAPI" -> AnthropicAsyncFile_upload(file, purpose, fault, sdk)
      [] OTHER -> OpenAIFile_upload(file, purpose, fault, sdk)

RetrieveOf(file_id, fault, sdk) ==
    CASE adapter = "AnthropicFileAPI" -> AnthropicFile_retrieve(file_id, fault, sdk)
      [] adapter = "AnthropicAsyncFileAPI" -> AnthropicAsyncFile_retrieve(file_id, fault, sdk)
      [] OTHER -> OpenAIFile_retrieve(file_id, fault, sdk)

DownloadOf(file_id, fault, sdk) ==
    CASE adapter = "AnthropicFileAPI" -> AnthropicFile_download(file_id, fault, sdk)
      [] adapter = "AnthropicAsyncFileAPI" -> AnthropicAsyncFile_download(file_id, fault, sdk)
      [] OTHER -> OpenAIFile_download(file_id, fault, sdk)

DeleteOf(file_id, fault, sdk) ==
    CASE adapter = "AnthropicFileAPI" -> AnthropicFile_delete(file_id, fault, sdk)
      [] adapter = "AnthropicAsyncFileAPI" -> AnthropicAsyncFile_delete(file_id, fault, sdk)
      [] OTHER -> OpenAIFile_delete(file_id, fault, sdk)

FileListOf(purpose, fault, sdk) ==
    CASE adapter = "AnthropicFileAPI" -> AnthropicFile_list(purpose, fault, sdk)
      [] adapter = "AnthropicAsyncFileAPI" -> AnthropicAsyncFile_list(purpose, fault, sdk)
      [] OTHER -> OpenAIFile_list(purpose, fault, sdk)

Create ==
    /\ adapter \in BatchAdapters
    /\ nextId <= MaxJobs
    /\ \E args \in CreateArgs, fault \in Faults :
       \E sdk \in SdkChoices(fault) :
          Complete("create", args[1], args[2], 0, 0, 0,
                   CreateOf(args[1], args[2], fault, sdk), sdk)

Status ==
    /\ adapter \in BatchAdapters
    /\ \E job_id \in JobIds, fault \in Faults :
       \E sdk \in SdkChoices(fault) :
          Complete("status", NoFile, NoRequests, job_id, 0, 0, StatusOf(job_id, fault, sdk), sdk)

\* The second call of result() is reached only if the first one answers.
Result ==
    /\ adapter \in BatchAdapters
    /\ \E job_id \in JobIds, fault \in Faults :
       \E fault2 \in (IF fault = NoExc THEN Faults ELSE {NoExc}) :
       \E sdk \in SdkChoices(fault) \cup SdkChoices(fault2) :
          Complete("result", NoFile, NoRequests, job_id, 0, 0,
                   ResultOf(job_id, fault, fault2, sdk), sdk)

Cancel ==
    /\ adapter \in BatchAdapters
    /\ \E job_id \in JobIds, fault \in Faults, strict \in BOOLEAN :
       \E sdk \in SdkChoices(fault) :
          Complete("cancel", NoFile, NoRequests, job_id, 0, 0,
                   CancelOf(job_id, fault, strict, sdk), sdk)

List ==
    /\ adapter \in BatchAdapters
    /\ \E limit \in 0..MaxLimit, after \in 0..MaxJobs, fault \in Faults :
       \E sdk \in SdkChoices(fault) :
          Complete("list", NoFile, NoRequests, 0, limit, after,
                   ListOf(limit, after, fault, sdk), sdk)

Upload ==
    /\ adapter \in FileAdapters
    /\ nextFile <= MaxFiles
    /\ \E file \in UploadArgs, purpose \in Purposes, fault \in FileFaults :
       \E sdk \in SdkChoices(fault) \cup (IF file.readable THEN {} ELSE BOOLEAN) :
          CompleteFile("upload", file, 0, purpose, UploadOf(file, purpose, fault, sdk), sdk)

Retrieve ==
    /\ adapter \in FileAdapters
    /\ \E file_id \in FileIds, fault \in FileFaults :
       \E sdk \in SdkChoices(fault) :
          CompleteFile("retrieve", NoFile, file_id, None, RetrieveOf(file_id, fault, sdk), sdk)

Download ==
    /\ adapter \in FileAdapters
    /\ \E file_id \in FileIds, fault \in FileFaults :
       \E sdk \in SdkChoices(fault) :
          CompleteFile("download", NoFile, file_id, None, DownloadOf(file_id, fault, sdk), sdk)

Delete ==
    /\ adapter \in FileAdapters
    /\ \E file_id \in FileIds, fault \in FileFaults :
       \E sdk \in SdkChoices(fault) :
          CompleteFile("delete", NoFile, file_id, None, DeleteOf(file_id, fault, sdk), sdk)

FileList ==
    /\ adapter \in FileAdapters
    /\ \E purpose \in Purposes \cup {None}, fault \in FileFaults :
       \E sdk \in SdkChoices(fault) :
          CompleteFile("list", NoFile, 0, purpose, FileListOf(purpose, fault, sdk), sdk)

GroqCreate ==
    /\ adapter = "GroqBatchProcess"
    /\ nextId <= MaxJobs
    /\ \E file \in {FileArg("bytes", <<"A", "NL", "B">>, TRUE)} :
          Complete("create", file, NoRequests, 0, 0, 0, Groq_create(file), TRUE)

GroqStatus ==
    /\ adapter = "GroqBatchProcess"
    /\ \E job_id \in JobIds :
          /\ jobs[job_id].status # "absent"
          /\ Complete("status", NoFile, NoRequests, job_id, 0, 0, Groq_status(job_id), TRUE)

\* The provider moves a job along its lifecycle.
GroqProviderMoves ==
    \E j \in JobIds :
        /\ lastOp = NoOp
        /\ adapter = "GroqBatchProcess"
        /\ jobs[j].status \in OpenAINative
        /\ \E next \in OpenAILifecycle[jobs[j].status] :
              jobs' = [jobs EXCEPT ![j].status = next]
        /\ lastOp' = NoOp
        /\ firstList' = Forgotten
        /\ UNCHANGED <<collected, arrived, threads, adapter, conn, nextId, files, nextFile, firstTerminal, tasks, self>>

\* The provider finishes a job: all its requests are settled, and the
\* results will be delivered in an order of the provider's choosing.
ProviderEnds ==
    \E j \in JobIds :
        /\ lastOp = NoOp
        /\ adapter \in BatchAdapters
        /\ jobs[j].status \in {"in_progress", "canceling", UnmappedNative}
        /\ \E p \in Perms(DOMAIN jobs[j].requests) :
              jobs' = [jobs EXCEPT ![j] = [jobs[j] EXCEPT !.status = "ended",
                                              !.order = [i \in DOMAIN p |-> jobs[j].requests[p[i]]]]]
        /\ lastOp' = NoOp
        /\ firstList' = Forgotten
        /\ UNCHANGED <<collected, arrived, threads, adapter, conn, nextId, files, nextFile, firstTerminal, tasks, self>>

\* The provider reports a job with a status the adapter's table does not list.
ProviderDrifts ==
    \E j \in JobIds :
        /\ lastOp = NoOp
        /\ adapter \in BatchAdapters
        /\ jobs[j].status = "in_progress"
        /\ jobs' = [jobs EXCEPT ![j].status = UnmappedNative]
        /\ lastOp' = NoOp
        /\ firstList' = Forgotten
        /\ UNCHANGED <<collected, arrived, threads, adapter, conn, nextId, files, nextFile, firstTerminal, tasks, self>>

\* The caller has looked at the outcome of its call and moves on.
Acknowledge ==
    /\ lastOp # NoOp
    /\ lastOp' = NoOp
    /\ UNCHANGED <<collected, arrived, threads, adapter, conn, jobs, nextId, files, nextFile, firstTerminal, firstList, tasks, self>>

Init ==
    /\ adapter \in Adapters
    /\ jobs = [j \in JobIds |-> NoJob]
    /\ nextId = 1
    /\ files = [f \in FileIds |-> NoStored]
    /\ nextFile = 1
    /\ lastOp = NoOp
    /\ firstTerminal = [j \in JobIds |-> None]
    /\ firstList = NoListed
    /\ tasks = NoTasks
    /\ self = NewAdapter
    /\ collected = NoCollected
    /\ arrived = <<>>
    /\ threads = NoThreads
    /\ conn = NewConnector

Next ==
    \/ Create
    \/ Status
    \/ Result
    \/ Cancel
    \/ List
    \/ Upload
    \/ Retrieve
    \/ Download
    \/ Delete
    \/ FileList
    \/ GroqCreate
    \/ GroqStatus
    \/ GroqProviderMoves
    \/ ProviderEnds
    \/ ProviderDrifts
    \/ Acknowledge

Spec == Init /\ [][Next]_vars


(***************************************************************************)
(* create() on a fresh account, over every payload up to MaxLen tokens.    *)
(***************************************************************************)
FileKinds == {"str", "bytes", "stream"}

CreateFromPayload ==
    /\ adapter \in BatchAdapters
    /\ nextId = 1
    /\ \E kind \in FileKinds, content \in Contents, fault \in {NoExc, Exc("InternalServerError", "500")} :
          Complete("create", FileArg(kind, content, TRUE), NoRequests, 0, 0, 0,
                   CreateOf(FileArg(kind, content, TRUE), NoRequests, fault, TRUE), TRUE)

InitPayload ==
    /\ Init
    /\ adapter \in BatchAdapters

NextPayload ==
    \/ CreateFromPayload
    \/ Acknowledge

SpecPayload == InitPayload /\ [][NextPayload]_vars

(***************************************************************************)
(* One connector and the calls of its accessors, in any order.             *)
(***************************************************************************)
TotalCalls ==
    conn.count.chat + conn.count.batch + conn.count.file
    + conn.count.async_chat + conn.count.async_batch + conn.count.async_file

\* The caller calls accessor `a`, which answers `r`.
Access(a, r) ==
    /\ TotalCalls < MaxCalls
    /\ conn' = [r.conn EXCEPT !.handed[a] = r.conn.handed[a] \cup {r.ret},
                              !.count[a] = r.conn.count[a] + 1]
    /\ UNCHANGED <<collected, arrived, threads, adapter, jobs, nextId, files, nextFile, lastOp, firstTerminal, firstList, tasks, self>>

AccessChat ==
    /\ adapter = "Connector"
    /\ Access("chat", Connector_chat(conn))

AccessBatch ==
    /\ adapter = "Connector"
    /\ Access("batch", Connector_batch(conn))

AccessFile ==
    /\ adapter = "Connector"
    /\ Access("file", Connector_file(conn))

AccessAsyncChat ==
    /\ adapter = "Connector"
    /\ Access("async_chat", Connector_async_chat(conn))

AccessAsyncBatch ==
    /\ adapter = "Connector"
    /\ Access("async_batch", Connector_async_batch(conn))

AccessAsyncFile ==
    /\ adapter = "Connector"
    /\ Access("async_file", Connector_async_file(conn))


InitConn ==
    /\ adapter = "Connector"
    /\ jobs = [j \in JobIds |-> NoJob]
    /\ nextId = 1
    /\ files = [f \in FileIds |-> NoStored]
    /\ nextFile = 1
    /\ lastOp = NoOp
    /\ firstTerminal = [j \in JobIds |-> None]
    /\ firstList = NoListed
    /\ tasks = NoTasks
    /\ self = NewAdapter
    /\ collected = NoCollected
    /\ arrived = <<>>
    /\ threads = NoThreads
    /\ conn = NewConnector

NextConn ==
    \/ AccessChat
    \/ AccessBatch
    \/ AccessFile
    \/ AccessAsyncChat
    \/ AccessAsyncBatch
    \/ AccessAsyncFile

SpecConn == InitConn /\ [][NextConn]_vars


(***************************************************************************)
(* Properties.                                                             *)
(***************************************************************************)
\* The native status of the job the completed call was about.  The provider
\* moves only between calls, so this is the status the call fetched.
FetchedStatus == jobs[lastOp.job].status

NotCompletedMessage == "Batch job is not completed. Current status: "

\* C1 (terminal-state gate): result(job_id) first retrieves the job; whenever
\* the status it fetched is not the terminal-successful one (native "ended",
\* unified COMPLETED) it raises BatchError "... not completed ..." and has
\* asked the provider for no results; when the fetched status is "ended" and
\* the provider delivers the results, it returns a BatchResult for the job.
C1_TerminalStateGate ==
    lastOp.op = "result" =>
        /\ lastOp.calls # <<>>
        /\ lastOp.calls[1] = CallRetrieve(lastOp.job)
        /\ FetchedStatus # "ended" =>
              /\ \A i \in DOMAIN lastOp.calls : lastOp.calls[i].m # "results"
              /\ lastOp.result # "return"
        /\ (FetchedStatus \in NativeStatuses \ {"ended"} /\ lastOp.met = NoExc) =>
              /\ lastOp.result = "raise"
              /\ lastOp.error.kind = "BatchError"
              /\ lastOp.error.msg = NotCompletedMessage
              /\ lastOp.error.detail = FetchedStatus
        /\ (FetchedStatus = "ended" /\ lastOp.met = NoExc) =>
              /\ lastOp.result = "return"
              /\ Len(lastOp.records) = Len(jobs[lastOp.job].order)
              /\ lastOp.calls = <<CallRetrieve(lastOp.job), CallResults(lastOp.job)>>

\* C1 witness: result() on a job that is still canceling was refused.
C1_Witness ==
    /\ lastOp.op = "result"
    /\ FetchedStatus = "canceling"
    /\ lastOp.result = "raise"
    /\ lastOp.error.msg = NotCompletedMessage
    /\ lastOp.calls = <<CallRetrieve(lastOp.job)>>

\* C2 (terminal statuses are final), as claimed: once a call has returned a
\* terminal status for a job, every later status call for that job returns
\* that same status.
C2_TerminalIsFinal ==
    (lastOp.op = "status" /\ lastOp.result = "return" /\ firstTerminal[lastOp.job] # None)
        => lastOp.ret.status = firstTerminal[lastOp.job]


\* C2 failing run, last step: a job first reported CANCELLED (by cancel(),
\* while the provider was still canceling it) is reported COMPLETED.
C2_Observed ==
    /\ lastOp.op = "status"
    /\ lastOp.result = "return"
    /\ firstTerminal[lastOp.job] = "CANCELLED"
    /\ lastOp.ret.status = "COMPLETED"

\* The _to_batch_request of the adapter under test.
ToBatchRequestOf(response) ==
    IF adapter = "AnthropicBatchProcess" THEN Batch_to_batch_request(response)
    ELSE AsyncBatch_to_batch_request(response)

\* C3 (status is a fresh fetch): every status(job_id) call makes exactly one
\* retrieve call to the provider for that job, and what it returns is the
\* mapping of the provider's present answer, never of an earlier one.
C3_StatusIsFresh ==
    (adapter \in BatchAdapters /\ lastOp.op = "status") =>
        /\ lastOp.calls = <<CallRetrieve(lastOp.job)>>
        /\ lastOp.result = "return" =>
              /\ FetchedStatus # "absent"
              /\ lastOp.ret = ToBatchRequestOf(Response(lastOp.job))
        /\ (lastOp.met = NoExc /\ FetchedStatus # "absent") => lastOp.result = "return"

\* C3 witness: the job changed at the provider after an earlier call had
\* reported it CANCELLED, and status() now reports the provider's new state.
C3_Witness ==
    /\ adapter \in BatchAdapters
    /\ lastOp.op = "status"
    /\ lastOp.result = "return"
    /\ firstTerminal[lastOp.job] = "CANCELLED"
    /\ FetchedStatus = "ended"
    /\ lastOp.ret.status = "COMPLETED"
    /\ lastOp.calls = <<CallRetrieve(lastOp.job)>>

\* The lines of a payload, read off the text itself: a line starts at the
\* beginning of the text and after every line break.
LineStarts(c) == {i \in 1..Len(c) : i = 1 \/ c[i - 1] = "NL"}

LineEnd(c, i) ==
    IF \E j \in i..Len(c) : c[j] = "NL"
    THEN (CHOOSE j \in i..Len(c) : c[j] = "NL" /\ \A k \in i..j - 1 : c[k] # "NL") - 1
    ELSE Len(c)

\* The tokens of the line starting at i, blanks left out.
IsWord(t) == t \notin {"SP", "NL"}
Words(c, i) == SelectSeq(SubSeq(c, i, LineEnd(c, i)), IsWord)

\* A line is valid JSON when it holds exactly one JSON object.
BadLine(c, i) ==
    /\ Words(c, i) # <<>>
    /\ ~(Len(Words(c, i)) = 1 /\ Words(c, i)[1] \in {"A", "B"})

BadLines(c) == {i \in LineStarts(c) : BadLine(c, i)}

FirstBadLine(c) == CHOOSE i \in BadLines(c) : \A k \in BadLines(c) : i <= k

\* What the JSON parser says of a bad line: text after the object, or no
\* object where one is expected.
ParseErrorOf(c, i) ==
    IF Words(c, i)[1] \in {"A", "B"} THEN "Extra data" ELSE "Expecting value"

InvalidJsonMessage == "Invalid JSON in batch file: "

\* C4 (a bad JSONL line is fatal): create() with a JSONL payload of which
\* some line is not valid JSON raises BatchError carrying the parse error of
\* the first such line, never calls the provider's batch create and leaves
\* the account without a job, whatever the lines before the bad one hold.
C4_BadLineIsFatal ==
    (/\ lastOp.op = "create"
     /\ ~lastOp.requests.given
     /\ lastOp.file.kind # "None"
     /\ lastOp.file.readable
     /\ BadLines(lastOp.file.content) # {}) =>
        /\ lastOp.result = "raise"
        /\ lastOp.error.kind = "BatchError"
        /\ lastOp.error.msg = InvalidJsonMessage
        /\ lastOp.error.detail =
              ParseErrorOf(lastOp.file.content, FirstBadLine(lastOp.file.content))
        /\ lastOp.calls = <<>>
        /\ \A j \in JobIds : jobs[j] = NoJob
        /\ nextId = 1

\* C4 witness: the payload's first line was valid, its second was not, and
\* create() raised without a call to the provider.
C4_Witness ==
    /\ lastOp.op = "create"
    /\ lastOp.file.content = <<"A", "NL", "x">>
    /\ lastOp.result = "raise"
    /\ lastOp.error.msg = InvalidJsonMessage
    /\ lastOp.calls = <<>>

NoRequestsMessage == "No requests provided. Use 'file' or 'requests' parameter."

\* C5 (create needs an input): create() called with neither a file nor a
\* requests list raises BatchError and calls the provider not at all.
C5_CreateNeedsInput ==
    (lastOp.op = "create" /\ lastOp.file.kind = "None" /\ ~lastOp.requests.given) =>
        /\ lastOp.result = "raise"
        /\ lastOp.error.kind = "BatchError"
        /\ lastOp.error.msg = NoRequestsMessage
        /\ lastOp.calls = <<>>
        /\ \A j \in JobIds : j >= nextId => jobs[j] = NoJob

\* C5 witness: such a create() call has been refused.
C5_Witness ==
    /\ lastOp.op = "create"
    /\ lastOp.file = NoFile
    /\ lastOp.requests = NoRequests
    /\ lastOp.result = "raise"
    /\ lastOp.met = NoExc

\* The mapping tables of the unified model, for the adapter under test.
AnthropicTable ==
    [in_progress |-> "IN_PROGRESS", canceling |-> "CANCELLED", ended |-> "COMPLETED"]

OpenAITable ==
    [validating |-> "VALIDATING", in_progress |-> "IN_PROGRESS", finalizing |-> "FINALIZING",
     completed |-> "COMPLETED", failed |-> "FAILED", expired |-> "EXPIRED",
     cancelling |-> "CANCELLING", cancelled |-> "CANCELLED"]

Table == IF adapter = "GroqBatchProcess" THEN OpenAITable ELSE AnthropicTable

\* C6 (status mapping): every BatchRequest an operation returns for a job
\* whose native status is a documented one carries the unified status the
\* table fixes for it, and that status is one of the eight BatchStatus values.
C6_StatusMappingPerTable ==
    \A b \in Returned(lastOp) :
        jobs[b.id].status \in DOMAIN Table =>
            /\ b.status = Table[jobs[b.id].status]
            /\ b.status \in BatchStatus

\* C6 witness: cancel() returned the job, which the provider reports as
\* "canceling", with the status CANCELLED.
C6_Witness ==
    /\ lastOp.op = "cancel"
    /\ lastOp.result = "return"
    /\ jobs[lastOp.job].status = "canceling"
    /\ lastOp.ret.status = "CANCELLED"

\* C7 (unmapped native status), as claimed: no operation returns a
\* BatchRequest for a job whose native status is absent from the table; it
\* raises instead.
C7_UnmappedStatusIsRefused ==
    \A b \in Returned(lastOp) : jobs[b.id].status \in DOMAIN Table

\* C7 failing run, last step: status() of a job the provider reports as
\* "paused" returned it as IN_PROGRESS.
C7_Observed ==
    /\ lastOp.op = "status"
    /\ lastOp.result = "return"
    /\ jobs[lastOp.job].status = UnmappedNative
    /\ lastOp.ret.status = "IN_PROGRESS"

C9_NoNativeLeak ==
    lastOp.op # "none" =>
        \/ lastOp.result = "return"
        \/ lastOp.result = "raise" /\ lastOp.error.kind \in Taxonomy

\* C9, amended: every Exception met inside a batch or file call reaches the
\* caller as an exception of the library's own taxonomy; the one thing that
\* passes through unconverted is the cancellation of an awaited call.
C9_OnlyCancellationPasses ==
    lastOp.op # "none" =>
        /\ lastOp.result \in {"return", "raise", "leak"}
        /\ lastOp.result = "raise" => lastOp.error.kind \in Taxonomy
        /\ isinstance(lastOp.met, "Exception") =>
              lastOp.result = "raise" /\ lastOp.error.kind \in Taxonomy
        /\ lastOp.result = "leak" =>
              /\ adapter \in AsyncAdapters
              /\ lastOp.met = Cancellation

\* C9 witness: an awaited file call met the SDK's BadRequestError and
\* raised FileError.
C9_Witness ==
    /\ adapter = "AnthropicAsyncFileAPI"
    /\ lastOp.op = "download"
    /\ lastOp.met.cls = "BadRequestError"
    /\ lastOp.result = "raise"
    /\ lastOp.error.kind = "FileError"


Constructed == lastOp.op = "construct" /\ lastOp.result = "return"

AccessorOf(a, c) ==
    CASE a = "chat" -> Connector_chat(c)
      [] a = "batch" -> Connector_batch(c)
      [] a = "file" -> Connector_file(c)
      [] a = "async_chat" -> Connector_async_chat(c)
      [] a = "async_batch" -> Connector_async_batch(c)
      [] a = "async_file" -> Connector_async_file(c)

ConstructConnector ==
    /\ adapter \in ConnectorClasses
    /\ lastOp = NoOp
    /\ \E config \in Configs, environ \in EnvKeys, available \in BOOLEAN :
          LET o == Connector_new(adapter, config, environ, available)
          IN  lastOp' = [NoOp EXCEPT !.op = "construct", !.config = config,
                                     !.environ = environ, !.available = available,
                                     !.result = o.result, !.error = o.error,
                                     !.met = o.met, !.calls = o.calls]
    /\ conn' = NewConnector
    /\ UNCHANGED <<collected, arrived, threads, adapter, jobs, nextId, files, nextFile, firstTerminal, firstList, tasks, self>>

\* connector.async_client
ReadAsyncClient ==
    /\ Constructed
    /\ "async_client" \in MethodsOf[adapter]
    /\ TotalCalls + conn.reads < MaxCalls
    /\ LET r == Connector_async_client(conn)
       IN  conn' = [r.conn EXCEPT !.clients = r.conn.clients \cup {r.ret},
                                  !.reads = r.conn.reads + 1]
    /\ UNCHANGED <<collected, arrived, threads, adapter, jobs, nextId, files, nextFile, lastOp, firstTerminal, firstList, tasks, self>>

CallSyncAccessor ==
    /\ Constructed
    /\ TotalCalls + conn.reads < MaxCalls
    /\ \E a \in {"chat", "batch", "file"} :
          /\ a \in MethodsOf[adapter]
          /\ Access(a, AccessorOf(a, conn))

CallAsyncAccessor ==
    /\ Constructed
    /\ TotalCalls + conn.reads < MaxCalls
    /\ \E a \in {"async_chat", "async_batch", "async_file"} :
          /\ a \in MethodsOf[adapter]
          /\ Access(a, AccessorOf(a, conn))

InitNew ==
    /\ adapter \in ConnectorClasses
    /\ jobs = [j \in JobIds |-> NoJob]
    /\ nextId = 1
    /\ files = [f \in FileIds |-> NoStored]
    /\ nextFile = 1
    /\ lastOp = NoOp
    /\ firstTerminal = [j \in JobIds |-> None]
    /\ firstList = NoListed
    /\ tasks = NoTasks
    /\ self = NewAdapter
    /\ collected = NoCollected
    /\ arrived = <<>>
    /\ threads = NoThreads
    /\ conn = NewConnector

NextNew ==
    \/ ConstructConnector
    \/ ReadAsyncClient
    \/ CallSyncAccessor
    \/ CallAsyncAccessor

SpecNew == InitNew /\ [][NextNew]_vars

\* No async accessor has been used on the connector.
NoAsyncUse ==
    /\ conn.reads = 0
    /\ conn.count.async_chat = 0
    /\ conn.count.async_batch = 0
    /\ conn.count.async_file = 0

\* C11 (the async client is lazy): constructing the connector constructs no
\* async client; the first read of async_client constructs exactly one, and
\* every read returns that one instance, however many reads and async
\* accessor calls there are.
C11_AsyncClientIsLazy ==
    /\ \A i \in DOMAIN lastOp.calls : lastOp.calls[i].m \notin {"AsyncGroq", "AsyncClient"}
    /\ NoAsyncUse => (conn.built.AsyncClient = 0 /\ conn.fields._async_client = 0)
    /\ conn.built.AsyncClient <= 1
    /\ conn.reads > 0 =>
          /\ conn.built.AsyncClient = 1
          /\ conn.fields._async_client # 0
          /\ conn.clients = {conn.fields._async_client}

\* C11 witness: a constructed connector whose async_client was read twice
\* holds the one client both reads returned.
C11_Witness ==
    /\ Constructed
    /\ conn.reads = 2
    /\ conn.built.AsyncClient = 1
    /\ Cardinality(conn.clients) = 1

\* C12 (the API key decides construction), as claimed: with the SDK at hand,
\* construction raises AuthenticationError exactly when neither
\* config["api_key"] nor the environment variable holds a key, and then no
\* client is constructed; otherwise it succeeds and the client is given the
\* key of the configuration if there is one, else the one of the environment.
C12_KeyDecidesConstruction ==
    (lastOp.op = "construct" /\ lastOp.available) =>
        LET resolvable == truthy(lastOp.config.api_key) \/ truthy(lastOp.environ)
            key == IF truthy(lastOp.config.api_key) THEN lastOp.config.api_key
                   ELSE lastOp.environ
        IN  /\ ~resolvable =>
                  /\ lastOp.result = "raise"
                  /\ lastOp.error.kind = "AuthenticationError"
                  /\ \A i \in DOMAIN lastOp.calls : lastOp.calls[i].m = "_validate_config"
            /\ resolvable =>
                  /\ lastOp.result = "return"
                  /\ \E i \in DOMAIN lastOp.calls :
                        /\ lastOp.calls[i].m \in {"OpenAI", "Groq"}
                        /\ lastOp.calls[i].api_key = key

\* C12 failing run, last step: OpenAIConnector(config={"api_key":
\* "config-key"}) with the SDK at hand raised TypeError and built no client.
C12_Observed ==
    /\ adapter = "OpenAIConnector"
    /\ lastOp.op = "construct"
    /\ lastOp.available
    /\ lastOp.config.api_key = "config-key"
    /\ lastOp.result = "leak"
    /\ lastOp.met.cls = "TypeError"
    /\ lastOp.calls = <<>>

\* C13 (a missing SDK is reported first), as claimed: when the SDK package
\* is unavailable, construction raises ProviderImportError under every
\* configuration and environment, with no validation of the configuration
\* and no client constructed.
C13_ImportErrorComesFirst ==
    (lastOp.op = "construct" /\ ~lastOp.available) =>
        /\ lastOp.result = "raise"
        /\ lastOp.error.kind = "ProviderImportError"
        /\ lastOp.calls = <<>>

\* C13 failing run, last step: OpenAIConnector(config) without the SDK
\* raised TypeError, not ProviderImportError.
C13_Observed ==
    /\ adapter = "OpenAIConnector"
    /\ lastOp.op = "construct"
    /\ ~lastOp.available
    /\ lastOp.result = "leak"
    /\ lastOp.met.cls = "TypeError"


\* The provider's job has expired: it ended with requests it never processed.
Expired(job) == job.status = "ended" /\ CountOf(job, "expired") > 0

\* C14 (timestamps are never fabricated), as claimed: every BatchRequest the
\* Anthropic adapters return has created_at set, in_progress_at and
\* failed_at unset, and cancelled_at, completed_at, finalized_at and
\* expired_at set only if the provider reports the job as having had a
\* cancellation initiated, as ended, or as expired.
C14_TimestampsAreReported ==
    adapter \in BatchAdapters =>
        \A b \in Returned(lastOp) :
            /\ b.timestamps.created_at \notin {None, ""}
            /\ b.timestamps.in_progress_at = None
            /\ b.timestamps.failed_at = None
            /\ b.timestamps.cancelled_at # None => jobs[b.id].cancelled
            /\ b.timestamps.completed_at # None => jobs[b.id].status = "ended"
            /\ b.timestamps.finalized_at # None => jobs[b.id].status = "ended"
            /\ b.timestamps.expired_at # None => Expired(jobs[b.id])

\* C14 failing run, last step: create() returned a job that is in progress
\* with expired_at set, to the time the provider will expire it at.
C14_Observed ==
    /\ adapter \in BatchAdapters
    /\ lastOp.op = "create"
    /\ lastOp.result = "return"
    /\ jobs[lastOp.ret.id].status = "in_progress"
    /\ lastOp.ret.timestamps.expired_at = "created+24h"
    /\ lastOp.ret.timestamps.completed_at = None

\* C15 (the Anthropic shape of a BatchRequest): every BatchRequest the
\* Anthropic adapters return has input_file_id "" and no output or error
\* file, and its request_counts total is the sum of the provider's five
\* counters, which is also the sum of the five counters it carries itself.
C15_AnthropicShape ==
    adapter \in BatchAdapters =>
        \A b \in Returned(lastOp) :
            /\ b.input_file_id = ""
            /\ b.output_file_id = None
            /\ b.error_file_id = None
            /\ b.request_counts.total =
                  Response(b.id).request_counts.processing
                  + Response(b.id).request_counts.succeeded
                  + Response(b.id).request_counts.errored
                  + Response(b.id).request_counts.canceled
                  + Response(b.id).request_counts.expired
            /\ b.request_counts.total =
                  b.request_counts.processing + b.request_counts.completed
                  + b.request_counts.failed + b.request_counts.canceled
                  + b.request_counts.expired

\* C15 witness: status() of a cancelled batch of two requests that has
\* ended: one succeeded, one was cancelled, the total is two.
C15_Witness ==
    /\ adapter \in BatchAdapters
    /\ lastOp.op = "status"
    /\ lastOp.result = "return"
    /\ jobs[lastOp.job].status = "ended"
    /\ lastOp.ret.input_file_id = ""
    /\ lastOp.ret.request_counts.completed = 1
    /\ lastOp.ret.request_counts.canceled = 1
    /\ lastOp.ret.request_counts.total = 2

\* What the provider's listing holds for the arguments of the completed
\* list() call, converted.
ProvidedList ==
    SeqMap(ToBatchRequestOf, ProviderList(lastOp.limit, lastOp.after, NoExc).items)

\* C16 (list is bounded by its limit), as claimed: list(limit, after) makes
\* one list call to the provider with that limit and that cursor, and what
\* it returns is a beginning of the provider's listing, at most `limit` long.
C16_ListIsBounded ==
    (adapter \in BatchAdapters /\ lastOp.op = "list") =>
        /\ lastOp.calls = <<CallList(lastOp.limit, lastOp.after)>>
        /\ lastOp.result = "return" =>
              /\ Len(lastOp.batches) <= lastOp.limit
              /\ Len(lastOp.batches) <= Len(ProvidedList)
              /\ lastOp.batches = SubSeq(ProvidedList, 1, Len(lastOp.batches))

\* C16 failing run, last step: list(limit=0) returned one BatchRequest.
C16_Observed ==
    /\ adapter \in BatchAdapters
    /\ lastOp.op = "list"
    /\ lastOp.limit = 0
    /\ lastOp.result = "return"
    /\ Len(lastOp.batches) = 1


(***************************************************************************)
(* Listing again: the batch operations of one Anthropic adapter with the   *)
(* history of listings kept.                                               *)
(***************************************************************************)
InitList ==
    /\ adapter \in BatchAdapters
    /\ jobs = [j \in JobIds |-> NoJob]
    /\ nextId = 1
    /\ files = [f \in FileIds |-> NoStored]
    /\ nextFile = 1
    /\ lastOp = NoOp
    /\ firstTerminal = [j \in JobIds |-> None]
    /\ firstList = [NoListed EXCEPT !.on = TRUE]
    /\ tasks = NoTasks
    /\ self = NewAdapter
    /\ collected = NoCollected
    /\ arrived = <<>>
    /\ threads = NoThreads
    /\ conn = NewConnector

NextList ==
    \/ Create
    \/ Status
    \/ List
    \/ ProviderEnds
    \/ Acknowledge

SpecList == InitList /\ [][NextList]_vars

\* The completed call is a list() that returned, and a list() with the same
\* arguments had returned before it with no change of the job list since.
Relisted ==
    /\ lastOp.op = "list"
    /\ lastOp.result = "return"
    /\ lastOp.before.has
    /\ lastOp.before.limit = lastOp.limit
    /\ lastOp.before.after = lastOp.after

AsyncFaults == {NoExc, Exc("InternalServerError", "500"), Cancellation}

\* The account: batch 1 has ended, the others are in progress.
SeededJobs ==
    [j \in JobIds |->
        IF j = 1
        THEN [status |-> "ended", requests |-> <<"request-1", "request-2">>,
              order |-> <<"request-1", "request-2">>, cancelled |-> FALSE]
        ELSE [status |-> "in_progress", requests |-> <<"request-1", "request-2">>,
              order |-> <<>>, cancelled |-> FALSE]]

\* The provider's answer to `call`, and the jobs afterwards.
ProviderAnswer(call, fault) ==
    CASE call.m = "retrieve" ->
            [answer |-> Answer(ProviderRetrieve(call.job, fault).exc,
                               ProviderRetrieve(call.job, fault).response, <<>>),
             jobs |-> jobs]
      [] call.m = "results" ->
            [answer |-> Answer(ProviderResults(call.job, fault).exc, NoResponse,
                               ProviderResults(call.job, fault).entries),
             jobs |-> jobs]
      [] call.m = "cancel" ->
            [answer |-> Answer(ProviderCancel(call.job, fault, FALSE).exc,
                               ProviderCancel(call.job, fault, FALSE).response, <<>>),
             jobs |-> ProviderCancel(call.job, fault, FALSE).jobs]

\* The coroutines suspended at an await, other than t, have been overtaken.
Overtaken(ts, t) ==
    [u \in TaskIds |->
        IF u # t /\ ts[u].pc \in {"await1", "await2"} THEN [ts[u] EXCEPT !.raced = TRUE]
        ELSE ts[u]]

\* The caller makes a coroutine of a method of the adapter; the coroutines
\* are numbered in the order they are made.
Spawn ==
    \E t \in TaskIds, op \in TaskOps, job_id \in JobIds :
        /\ adapter = "AnthropicAsyncBatchProcess"
        /\ tasks[t].pc = "none"
        /\ \A u \in 1..(t - 1) : tasks[u].pc # "none"
        /\ tasks' = [tasks EXCEPT ![t] = Started(op, job_id)]
        /\ UNCHANGED <<collected, arrived, threads, adapter, conn, jobs, nextId, files, nextFile, lastOp, firstTerminal,
                       firstList, self>>

\* The provider answers the call a coroutine awaits.
Answers ==
    \E t \in TaskIds, fault \in AsyncFaults :
        /\ tasks[t].pc \in {"await1", "await2"}
        /\ ~tasks[t].answered
        /\ LET a == ProviderAnswer(tasks[t].call, fault)
           IN  /\ tasks' = [tasks EXCEPT ![t].answered = TRUE,
                                         ![t].inbox = a.answer,
                                         ![t].got = Append(tasks[t].got,
                                                           [call |-> tasks[t].call,
                                                            answer |-> a.answer])]
               /\ jobs' = a.jobs
        /\ UNCHANGED <<collected, arrived, threads, adapter, conn, nextId, files, nextFile, lastOp, firstTerminal,
                       firstList, self>>

\* The event loop runs a coroutine that can go on, up to its next await.
Advance ==
    \E t \in TaskIds :
        /\ tasks[t].pc = "start" \/ (tasks[t].pc \in {"await1", "await2"} /\ tasks[t].answered)
        /\ LET s == AsyncBatch_step(self, tasks[t], tasks[t].inbox)
           IN  /\ tasks' = Overtaken([tasks EXCEPT ![t] = s.task], t)
               /\ self' = s.self
        /\ UNCHANGED <<collected, arrived, threads, adapter, conn, jobs, nextId, files, nextFile, lastOp, firstTerminal,
                       firstList>>

InitAsync ==
    /\ adapter = "AnthropicAsyncBatchProcess"
    /\ jobs = SeededJobs
    /\ nextId = MaxJobs + 1
    /\ files = [f \in FileIds |-> NoStored]
    /\ nextFile = 1
    /\ lastOp = NoOp
    /\ firstTerminal = [j \in JobIds |-> None]
    /\ firstList = NoListed
    /\ tasks = NoTasks
    /\ self = NewAdapter
    /\ collected = NoCollected
    /\ arrived = <<>>
    /\ threads = NoThreads
    /\ conn = NewConnector

NextAsync ==
    \/ Spawn
    \/ Answers
    \/ Advance
    \/ ProviderEnds

SpecAsync == InitAsync /\ [][NextAsync]_vars

\* The coroutine t, run alone on an adapter object of its own from coroutine
\* `c` on and given the answers `answers` one after the other.
RECURSIVE RunAlone(_, _, _)
RunAlone(me, c, answers) ==
    IF c.pc = "done" THEN c
    ELSE IF c.pc = "start"
    THEN RunAlone(AsyncBatch_step(me, c, NoAnswer).self, AsyncBatch_step(me, c, NoAnswer).task,
                  answers)
    ELSE IF answers = <<>> THEN c
    ELSE LET heard == [c EXCEPT !.answered = TRUE, !.inbox = Head(answers),
                                !.got = Append(c.got, [call |-> c.call,
                                                       answer |-> Head(answers)])]
         IN  RunAlone(AsyncBatch_step(me, heard, Head(answers)).self,
                      AsyncBatch_step(me, heard, Head(answers)).task, Tail(answers))

AnswerOf(g) == g.answer

\* C18 (concurrent calls share no state): no coroutine writes an attribute
\* of the adapter object, and every coroutine that has ended, however the
\* others were interleaved with it, made the calls and ended with the result
\* or error it has when it runs alone and is given the same answers.
C18_CallsAreSelfContained ==
    /\ self = NewAdapter
    /\ collected = NoCollected
    /\ arrived = <<>>
    /\ threads = NoThreads
    /\ \A t \in TaskIds :
          tasks[t].pc = "done" =>
              LET alone == RunAlone(NewAdapter, Started(tasks[t].op, tasks[t].job_id),
                                    SeqMap(AnswerOf, tasks[t].got))
              IN  /\ alone.pc = "done"
                  /\ alone.out = tasks[t].out
                  /\ alone.got = tasks[t].got

\* C18 witness: result() of the ended batch returned its two records
\* although, while it was suspended, a call about another batch ran on the
\* same adapter object.
C18_Witness ==
    \E t \in TaskIds, u \in TaskIds :
        /\ tasks[t].pc = "done"
        /\ tasks[t].op = "result"
        /\ tasks[t].raced
        /\ tasks[t].out.result = "return"
        /\ Len(tasks[t].out.records) = 2
        /\ tasks[u].pc # "none"
        /\ tasks[u].job_id # tasks[t].job_id


(***************************************************************************)
(* Payloads that lack a field.  _to_batch_request and the FileObject(...)  *)
(* of OpenAIFileAPI.retrieve read the fields of the provider's answer as   *)
(* attributes, inside the try block of the operation: reading one the      *)
(* answer lacks raises AttributeError there, which the except clause hands *)
(* to _handle_exception like any other exception.                          *)
(***************************************************************************)
\* The attributes _to_batch_request reads of a MessageBatch.
BatchFields ==
    {"id", "processing_status", "created_at", "cancel_initiated_at", "ended_at",
     "expires_at", "request_counts"}

\* The attributes OpenAIFileAPI.retrieve reads of a file object (`size` is
\* the provider's `bytes`).
OpenAIFileFields == {"id", "filename", "purpose", "size", "created_at", "status"}

\* The answer `response` without its field `field`.
Lacking(response, field) == [f \in (DOMAIN response) \ {field} |-> response[f]]

\* response.<name> for every name of `fields`: the first one the answer
\* lacks raises AttributeError.
ReadAll(response, fields) ==
    IF fields \subseteq DOMAIN response THEN NoExc ELSE Exc("AttributeError", None)

\* status() when the provider answers with `response`.
Batch_status_decode(job_id, response, sdk) ==
    IF ReadAll(response, BatchFields) # NoExc
    THEN Batch_except(ReadAll(response, BatchFields), sdk, <<CallRetrieve(job_id)>>)
    ELSE Return(Batch_to_batch_request(response), <<>>, <<>>, <<CallRetrieve(job_id)>>,
                jobs, nextId)

AsyncBatch_status_decode(job_id, response, sdk) ==
    IF ReadAll(response, BatchFields) # NoExc
    THEN AsyncBatch_except(ReadAll(response, BatchFields), sdk, <<CallRetrieve(job_id)>>)
    ELSE Return(AsyncBatch_to_batch_request(response), <<>>, <<>>, <<CallRetrieve(job_id)>>,
                jobs, nextId)

\* retrieve() when the provider answers with `response`.
OpenAIFile_retrieve_decode(file_id, response, sdk) ==
    IF ReadAll(response, OpenAIFileFields) # NoExc
    THEN OpenAIFile_except(ReadAll(response, OpenAIFileFields), sdk,
                           <<FileCall("files.retrieve", file_id)>>)
    ELSE FileReturn(0, OpenAIFile_file_object(response), 0, <<>>,
                    <<FileCall("files.retrieve", file_id)>>, files, nextFile)

DecodingAdapters == {"AnthropicBatchProcess", "AnthropicAsyncBatchProcess", "OpenAIFileAPI"}

\* status() of an existing batch; the provider's answer lacks one field, or
\* none (field = None).
StatusShort ==
    /\ adapter \in BatchAdapters
    /\ lastOp = NoOp
    /\ \E job_id \in JobIds, field \in BatchFields \cup {None}, sdk \in BOOLEAN :
          LET o == IF adapter = "AnthropicBatchProcess"
                   THEN Batch_status_decode(job_id, Lacking(Response(job_id), field), sdk)
                   ELSE AsyncBatch_status_decode(job_id, Lacking(Response(job_id), field), sdk)
          IN  /\ jobs[job_id].status # "absent"
              /\ lastOp' = [NoOp EXCEPT !.op = "status", !.job = job_id, !.missing = field,
                                        !.result = o.result, !.error = o.error,
                                        !.met = o.met, !.ret = o.ret, !.calls = o.calls]
    /\ UNCHANGED <<collected, arrived, threads, adapter, conn, jobs, nextId, files, nextFile, firstTerminal, firstList,
                   tasks, self>>

\* retrieve() of a stored file; the provider's answer lacks one field, or none.
RetrieveShort ==
    /\ adapter = "OpenAIFileAPI"
    /\ lastOp = NoOp
    /\ \E file_id \in FileIds, field \in OpenAIFileFields \cup {None}, sdk \in BOOLEAN :
          LET response == FileResponse("openai", file_id, files[file_id].purpose)
              o == OpenAIFile_retrieve_decode(file_id, Lacking(response, field), sdk)
          IN  /\ files[file_id].state # "absent"
              /\ lastOp' = [NoOp EXCEPT !.op = "retrieve", !.job = file_id, !.missing = field,
                                        !.result = o.result, !.error = o.error,
                                        !.met = o.met, !.object = o.object,
                                        !.calls = o.calls]
    /\ UNCHANGED <<collected, arrived, threads, adapter, conn, jobs, nextId, files, nextFile, firstTerminal, firstList,
                   tasks, self>>

InitShort ==
    /\ adapter \in DecodingAdapters
    /\ jobs = [j \in JobIds |-> NoJob]
    /\ nextId = 1
    /\ files = [f \in FileIds |-> NoStored]
    /\ nextFile = 1
    /\ lastOp = NoOp
    /\ firstTerminal = [j \in JobIds |-> None]
    /\ firstList = NoListed
    /\ tasks = NoTasks
    /\ self = NewAdapter
    /\ collected = NoCollected
    /\ arrived = <<>>
    /\ threads = NoThreads
    /\ conn = NewConnector

NextShort ==
    \/ Create
    \/ Upload
    \/ ProviderEnds
    \/ StatusShort
    \/ RetrieveShort
    \/ Acknowledge

SpecShort == InitShort /\ [][NextShort]_vars

\* C19 (a missing field is an APIError): whenever status() or retrieve()
\* is answered with a payload that lacks a field the adapter reads, the
\* operation raises APIError.
C19_MissingFieldIsAPIError ==
    (lastOp.op \in {"status", "retrieve"} /\ lastOp.missing # None) =>
        /\ lastOp.result = "raise"
        /\ lastOp.error.kind = "APIError"

\* C19 observed: status() of a batch whose answer lacks processing_status
\* raises BatchError, with the SDK importable.
C19_Observed ==
    /\ lastOp.op = "status"
    /\ lastOp.missing = "processing_status"
    /\ lastOp.met = Exc("AttributeError", None)
    /\ lastOp.result = "raise"
    /\ lastOp.error.kind = "BatchError"
    /\ lastOp.error.kind # "APIError"


\* The file operation just completed met a provider not-found or
\* invalid-request error.
FileCallRefused ==
    /\ adapter \in FileAdapters
    /\ lastOp.op \in {"upload", "retrieve", "download", "delete", "list"}
    /\ lastOp.met.cls \in {"NotFoundError", "BadRequestError"}

\* C20 (not found and invalid request are FileError): whenever a file
\* operation of any file adapter meets the provider's not-found or
\* bad-request error, it raises FileError.
C20_RefusalsAreFileErrors ==
    FileCallRefused =>
        /\ lastOp.result = "raise"
        /\ lastOp.error.kind = "FileError"

\* C20 observed: a file operation of OpenAIFileAPI met the provider's 400
\* and raised APIError carrying the status code.
C20_Observed ==
    /\ FileCallRefused
    /\ adapter = "OpenAIFileAPI"
    /\ lastOp.met = Exc("BadRequestError", "400")
    /\ lastOp.result = "raise"
    /\ lastOp.error.kind = "APIError"
    /\ lastOp.error.status_code = "400"


(***************************************************************************)
(* The streaming helper of the tool-calling example: the loop that         *)
(* collects the ToolCallDelta items of a stream into collected_tool_calls, *)
(* keyed by index.  A text is a sequence of characters, so that fragments  *)
(* concatenate.                                                            *)
(***************************************************************************)
MaxDeltas == 3

Indexes == {0, 1}

\* The `arguments` of a delta: absent (None), or a fragment of text.
Absent == [has |-> FALSE, text |-> <<>>]
Fragment(text) == [has |-> TRUE, text |-> text]

ToolCallDelta(index, id, name, arguments) ==
    [index |-> index, id |-> id, name |-> name, arguments |-> arguments]

\* The deltas a stream can carry: id absent or given, name empty or given,
\* arguments absent or one of two fragments.
Deltas ==
    { ToolCallDelta(index, id, name, arguments) :
        index \in Indexes, id \in {None, "call-a"}, name \in {"", "get_weather"},
        arguments \in {Absent, Fragment(<<"x">>), Fragment(<<"y">>)} }

\* Python's truth value of an optional text.
truthy_text(a) == a.has /\ a.text # <<>>

\* collected_tool_calls[idx] = {"id": "", "name": "", "arguments": ""}
NewEntry == [id |-> "", name |-> "", arguments |-> <<>>]

\* An update that assigns id and name whatever the delta carries.
collect_entry_overwriting(entry, tc_delta) ==
    [id        |-> IF tc_delta.id = None THEN "" ELSE tc_delta.id,
     name      |-> IF tc_delta.name = None THEN "" ELSE tc_delta.name,
     arguments |-> IF truthy_text(tc_delta.arguments)
                   THEN entry.arguments \o tc_delta.arguments.text
                   ELSE entry.arguments]

\* The three `if` statements that update the entry of the delta's index.
collect_entry(entry, tc_delta) ==
    [id        |-> IF truthy(tc_delta.id) THEN tc_delta.id ELSE entry.id,
     name      |-> IF truthy(tc_delta.name) THEN tc_delta.name ELSE entry.name,
     arguments |-> IF truthy_text(tc_delta.arguments)
                   THEN entry.arguments \o tc_delta.arguments.text
                   ELSE entry.arguments]

\* The body of `for tc_delta in chunk.delta_tool_calls`.
collect(c, tc_delta) ==
    LET idx == tc_delta.index
        entry == IF idx \in DOMAIN c THEN c[idx] ELSE NewEntry
    IN  [i \in (DOMAIN c) \cup {idx} |->
            IF i = idx THEN collect_entry(entry, tc_delta) ELSE c[i]]

\* The stream delivers one more delta and the loop body handles it.
Collect ==
    \E tc_delta \in Deltas :
        /\ adapter = "main"
        /\ Len(arrived) < MaxDeltas
        /\ collected' = collect(collected, tc_delta)
        /\ arrived' = Append(arrived, tc_delta)
        /\ UNCHANGED <<adapter, conn, jobs, nextId, files, nextFile, lastOp, firstTerminal,
                       firstList, tasks, self, threads>>

InitStream ==
    /\ adapter = "main"
    /\ jobs = [j \in JobIds |-> NoJob]
    /\ nextId = 1
    /\ files = [f \in FileIds |-> NoStored]
    /\ nextFile = 1
    /\ lastOp = NoOp
    /\ firstTerminal = [j \in JobIds |-> None]
    /\ firstList = NoListed
    /\ tasks = NoTasks
    /\ self = NewAdapter
    /\ collected = NoCollected
    /\ arrived = <<>>
    /\ threads = NoThreads
    /\ conn = NewConnector

NextStream == Collect

SpecStream == InitStream /\ [][NextStream]_vars

\* The fragments the stream `s` carried for index `idx`, in arrival order.
RECURSIVE FragmentsOf(_, _)
FragmentsOf(idx, s) ==
    IF s = <<>> THEN <<>>
    ELSE (IF Head(s).index = idx THEN Head(s).arguments.text ELSE <<>>)
         \o FragmentsOf(idx, Tail(s))

\* The last id, or name, the stream `s` carried for index `idx` that is not
\* empty or absent; "" if it carried none.
RECURSIVE LastGiven(_, _, _)
LastGiven(field, idx, s) ==
    IF s = <<>> THEN ""
    ELSE IF s[Len(s)].index = idx /\ truthy(s[Len(s)][field]) THEN s[Len(s)][field]
    ELSE LastGiven(field, idx, SubSeq(s, 1, Len(s) - 1))

\* C21 (deltas are accumulated per index): the helper holds an entry for
\* exactly the indexes that arrived; the arguments of each are its fragments
\* concatenated in arrival order, whatever deltas of other indexes came in
\* between, and its id and name are the last ones given that were not empty
\* or absent, so an empty later delta does not overwrite them.
C21_DeltasAccumulatePerIndex ==
    /\ DOMAIN collected = {arrived[i].index : i \in DOMAIN arrived}
    /\ \A idx \in DOMAIN collected :
          /\ collected[idx].arguments = FragmentsOf(idx, arrived)
          /\ collected[idx].id = LastGiven("id", idx, arrived)
          /\ collected[idx].name = LastGiven("name", idx, arrived)

\* C21 witness: index 0 got its id, its name and a fragment, then a delta of
\* index 1 arrived, then index 0 got a second fragment in a delta without id
\* and name; the helper holds both fragments in order and the latched id.
C21_Witness ==
    /\ Len(arrived) = 3
    /\ arrived[1] = ToolCallDelta(0, "call-a", "get_weather", Fragment(<<"x">>))
    /\ arrived[2].index = 1
    /\ arrived[3] = ToolCallDelta(0, None, "", Fragment(<<"y">>))
    /\ collected[0] = [id |-> "call-a", name |-> "get_weather", arguments |-> <<"x", "y">>]


(***************************************************************************)
(* create() on a fresh account, over payloads written line by line: up to  *)
(* MaxLines lines, each empty, a blank or a request.                       *)
(***************************************************************************)
MaxLines == 5

PayloadLines == {<<>>, <<"SP">>, <<"A">>, <<"B">>}

\* "\n".join(lines)
RECURSIVE join(_)
join(lines) ==
    IF lines = <<>> THEN <<>>
    ELSE IF Len(lines) = 1 THEN Head(lines)
    ELSE Head(lines) \o <<"NL">> \o join(Tail(lines))

CreateFromLines ==
    /\ adapter \in BatchAdapters
    /\ nextId = 1
    /\ lastOp = NoOp
    /\ \E kind \in FileKinds, lines \in SeqsUpTo(PayloadLines, MaxLines),
          fault \in {NoExc, Exc("InternalServerError", "500")} :
          Complete("create", FileArg(kind, join(lines), TRUE), NoRequests, 0, 0, 0,
                   CreateOf(FileArg(kind, join(lines), TRUE), NoRequests, fault, TRUE), TRUE)

NextLines ==
    \/ CreateFromLines
    \/ Acknowledge

SpecLines == InitPayload /\ [][NextLines]_vars

\* The lines of a payload: the text between its line breaks.
RECURSIVE LinesOf(_, _)
LinesOf(content, line) ==
    IF content = <<>> THEN <<line>>
    ELSE IF Head(content) = "NL" THEN <<line>> \o LinesOf(Tail(content), <<>>)
    ELSE LinesOf(Tail(content), Append(line, Head(content)))

IsBlank(line) == \A i \in DOMAIN line : line[i] \in Whitespace

RECURSIVE NonBlank(_)
NonBlank(lines) ==
    IF lines = <<>> THEN <<>>
    ELSE IF IsBlank(Head(lines)) THEN NonBlank(Tail(lines))
    ELSE <<Head(lines)>> \o NonBlank(Tail(lines))

Decodes(line) == json_loads(line).ok
Decoded(line) == json_loads(line).value

\* create() was given a payload with a blank line in it and at least one
\* line that is not blank, all of those being requests.
BlankLinesGiven ==
    /\ lastOp.op = "create"
    /\ lastOp.file.kind # "None"
    /\ \E i \in DOMAIN LinesOf(lastOp.file.content, <<>>) :
          IsBlank(LinesOf(lastOp.file.content, <<>>)[i])
    /\ NonBlank(LinesOf(lastOp.file.content, <<>>)) # <<>>
    /\ \A i \in DOMAIN NonBlank(LinesOf(lastOp.file.content, <<>>)) :
          Decodes(NonBlank(LinesOf(lastOp.file.content, <<>>))[i])

\* C22 (blank lines are skipped): create() of a payload with blank lines
\* (leading, trailing or between requests) submits, in one provider call,
\* the lines that are not blank, decoded, in their order, and raises no
\* BatchError.
C22_BlankLinesAreSkipped ==
    BlankLinesGiven =>
        /\ lastOp.calls =
              <<CallCreate(SeqMap(Decoded, NonBlank(LinesOf(lastOp.file.content, <<>>))))>>
        /\ lastOp.error.kind # "BatchError"
        /\ lastOp.met = NoExc => lastOp.result = "return"

\* C22 witness: a payload with a leading blank line, an empty line between
\* its two requests and a trailing blank line was submitted as the two
\* requests.
C22_Witness ==
    /\ BlankLinesGiven
    /\ Len(lastOp.file.content) >= 6
    /\ IsBlank(LinesOf(lastOp.file.content, <<>>)[1])
    /\ LinesOf(lastOp.file.content, <<>>)[3] = <<>>
    /\ IsBlank(LinesOf(lastOp.file.content, <<>>)[Len(LinesOf(lastOp.file.content, <<>>))])
    /\ lastOp.result = "return"
    /\ lastOp.calls = <<CallCreate(<<"request-1", "request-2">>)>>


\* C23 (every capability in both modes), as claimed: every connector class
\* defines chat(), batch(), file(), async_chat(), async_batch() and
\* async_file(); constructed with a key and the SDK at hand it is built, and
\* every accessor that is called hands out an adapter.
C23_BothModesOffered ==
    /\ (lastOp.op = "construct" /\ lastOp.available /\ truthy(lastOp.config.api_key)) =>
          /\ Accessors \subseteq MethodsOf[adapter]
          /\ lastOp.result = "return"
    /\ \A a \in Accessors :
          conn.count[a] > 0 => (conn.handed[a] # {} /\ 0 \notin conn.handed[a])

\* C23 failing run, last step: OpenAIConnector, which defines no async
\* accessor, was constructed with a key and the SDK at hand; instantiation
\* raised TypeError, so there is no connector to ask for any adapter.
C23_Observed ==
    /\ adapter = "OpenAIConnector"
    /\ {"async_chat", "async_batch", "async_file"} \cap MethodsOf[adapter] = {}
    /\ lastOp.op = "construct"
    /\ lastOp.available
    /\ truthy(lastOp.config.api_key)
    /\ lastOp.result = "leak"
    /\ lastOp.met = Exc("TypeError", None)
    /\ \A a \in Accessors : conn.count[a] = 0


\* retrieve(), download() or list() of a file adapter has just completed.
FileRead ==
    /\ adapter \in FileAdapters
    /\ lastOp.op \in {"retrieve", "download", "list"}

\* The files the provider stores now, by id.
StoredNow == {i \in FileIds : files[i].state = "stored"}

\* C24 (the file adapter caches nothing): every retrieve, download and list
\* issues one provider call; what it returns is what the provider stores at
\* that moment, and for a file the provider no longer stores (it was deleted)
\* retrieve and download return nothing: the provider's not-found is raised
\* as FileError.
C24_FileStateIsNeverCached ==
    FileRead =>
        /\ Len(lastOp.calls) = 1
        /\ lastOp.op \in {"retrieve", "download"} =>
              /\ lastOp.calls[1].job = lastOp.job
              /\ lastOp.result = "return" => lastOp.job \in StoredNow
              /\ (lastOp.job \notin StoredNow /\ lastOp.met.cls = "NotFoundError") =>
                    (lastOp.result = "raise" /\ lastOp.error.kind = "FileError")
        /\ (lastOp.op = "retrieve" /\ lastOp.result = "return") =>
              lastOp.object.id = lastOp.job
        /\ (lastOp.op = "list" /\ lastOp.result = "return") =>
              {lastOp.list[i].id : i \in DOMAIN lastOp.list} \subseteq StoredNow

\* C24 witness: file 1 was uploaded and has been deleted since; retrieve of
\* it made its call and raised FileError for the provider's not-found.
C24_Witness ==
    /\ FileRead
    /\ lastOp.op = "retrieve"
    /\ lastOp.job = 1
    /\ nextFile > 1
    /\ files[1].state = "absent"
    /\ lastOp.met = Exc("NotFoundError", "404")
    /\ lastOp.result = "raise"
    /\ lastOp.error.kind = "FileError"
    /\ Len(lastOp.calls) = 1


\* The provider calls that only read, and those that change a job.
ReadingCalls == {"retrieve", "results", "list"}
ChangingCalls == {"create", "cancel"}

\* A call of an Anthropic batch adapter completes in this step.
BatchCallCompletes ==
    /\ adapter \in BatchAdapters
    /\ lastOp = NoOp
    /\ lastOp' # NoOp

\* C25 (the batch adapter only observes): a status, result or list call
\* issues only retrieve, results and list calls and leaves every job of the
\* provider as it was; a create issues no call but create and a cancel no call
\* but cancel, at most one, and the jobs change only through that call.
C25_ReadsOnlyObserve ==
    [][BatchCallCompletes =>
          /\ lastOp'.op \in {"status", "result", "list"} =>
                /\ \A i \in DOMAIN lastOp'.calls : lastOp'.calls[i].m \in ReadingCalls
                /\ jobs' = jobs
                /\ nextId' = nextId
          /\ lastOp'.op \in {"create", "cancel"} =>
                /\ \A i \in DOMAIN lastOp'.calls : lastOp'.calls[i].m = lastOp'.op
                /\ Len(lastOp'.calls) <= 1
                /\ jobs' # jobs => Len(lastOp'.calls) = 1
          /\ lastOp'.op \in {"status", "result", "list", "create", "cancel"}]_vars

\* C25 witness: result() of an ended batch returned its records after a
\* retrieve and a results call, with another batch still in progress.
C25_Witness ==
    /\ adapter \in BatchAdapters
    /\ lastOp.op = "result"
    /\ lastOp.result = "return"
    /\ lastOp.calls = <<CallRetrieve(lastOp.job), CallResults(lastOp.job)>>
    /\ jobs[lastOp.job].status = "ended"
    /\ \E j \in JobIds : jobs[j].status = "in_progress"


(***************************************************************************)
(* Cancelling and polling: the Anthropic batch adapters with a caller that *)
(* creates, cancels and keeps polling status(), and a provider that        *)
(* finishes what it has begun.                                             *)
(***************************************************************************)
NextPoll ==
    \/ Create
    \/ Cancel
    \/ Status
    \/ ProviderEnds
    \/ Acknowledge

\* The provider finishes every batch it is working on or canceling (it can
\* do so whenever no call is under way), and the caller goes on after every
\* call.
SpecPoll ==
    /\ InitPayload
    /\ [][NextPoll]_vars
    /\ SF_vars(ProviderEnds)
    /\ WF_vars(Acknowledge)

\* cancel(j) has just returned for a batch that was in progress.
CancelAccepted(j) ==
    /\ lastOp.op = "cancel"
    /\ lastOp.job = j
    /\ lastOp.result = "return"
    /\ jobs[j].status = "canceling"

\* status(j) has just returned `status`.
StatusReturned(j, status) ==
    /\ lastOp.op = "status"
    /\ lastOp.job = j
    /\ lastOp.result = "return"
    /\ lastOp.ret.status = status

\* status(j) has just returned.
Polled(j) ==
    /\ lastOp.op = "status"
    /\ lastOp.job = j
    /\ lastOp.result = "return"

\* status(j) has just returned something else than CANCELLED.
StatusNotCancelled(j) ==
    /\ lastOp.op = "status"
    /\ lastOp.job = j
    /\ lastOp.result = "return"
    /\ lastOp.ret.status # "CANCELLED"

\* C26 (a cancelled batch settles in CANCELLED), as claimed: if status(j)
\* is polled again and again, then once cancel(j) was accepted for a batch in
\* progress, status(j) eventually returns CANCELLED and from some point on
\* returns nothing but CANCELLED.
C26_CancelSettlesInCancelled ==
    \A j \in JobIds :
        ([]<>Polled(j)) =>
            [](CancelAccepted(j) =>
                  /\ <>StatusReturned(j, "CANCELLED")
                  /\ <>[]~StatusNotCancelled(j))

\* C26 failing run, a step of its cycle: the batch whose cancellation was
\* accepted has ended at the provider, and status() returns COMPLETED for it.
C26_Observed ==
    \E j \in JobIds :
        /\ jobs[j].cancelled
        /\ jobs[j].status = "ended"
        /\ StatusReturned(j, "COMPLETED")


(***************************************************************************)
(* Threads on one connector.  An accessor is                               *)
(*     if self._x is None: self._x = Adapter(self._client)                 *)
(*     return self._x                                                      *)
(* with no lock around it: a thread can be suspended between the test, the *)
(* construction, the assignment and the return, and another one run.       *)
(***************************************************************************)
SyncAccessors == {"chat", "batch", "file"}

\* thread.start(): the thread is about to call accessor `a`.
Called(a) == [pc |-> "test", accessor |-> a, made |-> 0, got |-> 0]

\* One step of a thread inside an accessor: the connector and the thread
\* afterwards.
Connector_accessor_step(c, th) ==
    LET field == FieldOf[th.accessor]
    IN  CASE th.pc = "test" ->
                [conn |-> c,
                 thread |-> [th EXCEPT !.pc = IF c.fields[field] = 0 THEN "construct"
                                               ELSE "return"]]
          [] th.pc = "construct" ->
                [conn |-> [c EXCEPT !.objects = c.objects + 1,
                                    !.built[ClassOf[th.accessor]] =
                                        c.built[ClassOf[th.accessor]] + 1],
                 thread |-> [th EXCEPT !.pc = "store", !.made = c.objects + 1]]
          [] th.pc = "store" ->
                [conn |-> [c EXCEPT !.fields[field] = th.made],
                 thread |-> [th EXCEPT !.pc = "return"]]
          [] th.pc = "return" ->
                [conn |-> [c EXCEPT !.handed[th.accessor] =
                                        c.handed[th.accessor] \cup {c.fields[field]},
                                    !.count[th.accessor] = c.count[th.accessor] + 1],
                 thread |-> [th EXCEPT !.pc = "done", !.got = c.fields[field]]]

\* A thread is started on an accessor of the connector.
StartThread ==
    \E t \in ThreadIds, a \in SyncAccessors :
        /\ adapter = "Connector"
        /\ threads[t].pc = "none"
        /\ threads' = [threads EXCEPT ![t] = Called(a)]
        /\ UNCHANGED <<adapter, conn, jobs, nextId, files, nextFile, lastOp, firstTerminal,
                       firstList, tasks, self, collected, arrived>>

\* The interpreter runs a thread for one step.
RunThread ==
    \E t \in ThreadIds :
        /\ threads[t].pc \in {"test", "construct", "store", "return"}
        /\ LET s == Connector_accessor_step(conn, threads[t])
           IN  /\ conn' = s.conn
               /\ threads' = [threads EXCEPT ![t] = s.thread]
        /\ UNCHANGED <<adapter, jobs, nextId, files, nextFile, lastOp, firstTerminal,
                       firstList, tasks, self, collected, arrived>>

\* The caller joins a thread that has returned and may start it again.
JoinThread ==
    \E t \in ThreadIds :
        /\ threads[t].pc = "done"
        /\ TotalCalls < MaxCalls
        /\ threads' = [threads EXCEPT ![t] = NoThread]
        /\ UNCHANGED <<adapter, conn, jobs, nextId, files, nextFile, lastOp, firstTerminal,
                       firstList, tasks, self, collected, arrived>>

NextThreads ==
    \/ StartThread
    \/ RunThread
    \/ JoinThread

SpecThreads == InitConn /\ [][NextThreads]_vars

\* C27 (one adapter per accessor under concurrent first calls), as claimed:
\* whatever threads call an accessor of one connector, and however they are
\* interleaved, one adapter of its class is constructed and every call
\* returns that instance.
C27_OneAdapterUnderThreads ==
    \A a \in SyncAccessors :
        /\ conn.built[ClassOf[a]] <= 1
        /\ Cardinality(conn.handed[a]) <= 1
        /\ \A t \in ThreadIds, u \in ThreadIds :
              (threads[t].pc = "done" /\ threads[u].pc = "done"
               /\ threads[t].accessor = a /\ threads[u].accessor = a) =>
                  threads[t].got = threads[u].got

\* C27 failing run, last step: two threads called chat() on the fresh
\* connector, both found _chat empty, two adapters were constructed and the
\* threads hold different instances.
C27_Observed ==
    /\ threads[1].pc = "done"
    /\ threads[2].pc = "done"
    /\ threads[1].accessor = "chat"
    /\ threads[2].accessor = "chat"
    /\ conn.count.chat = 2
    /\ conn.built.ChatCompletion = 2
    /\ threads[1].got # threads[2].got
    /\ threads[1].got # 0
    /\ threads[2].got # 0


(***************************************************************************)
(* The blocking and the suspending batch adapter side by side: the same    *)
(* call, against the same provider state, meeting the same provider        *)
(* answer or error.  An outcome holds the value returned or the error      *)
(* raised, the provider calls made in order and the provider state left.   *)
(***************************************************************************)
SameCreate ==
    \A args \in CreateArgs, fault \in CallFaults :
        \A sdk \in SdkChoices(fault) :
            Batch_create(args[1], args[2], fault, sdk)
                = AsyncBatch_create(args[1], args[2], fault, sdk)

SameStatus ==
    \A job_id \in JobIds, fault \in CallFaults :
        \A sdk \in SdkChoices(fault) :
            Batch_status(job_id, fault, sdk) = AsyncBatch_status(job_id, fault, sdk)

SameResult ==
    \A job_id \in JobIds, fault \in CallFaults :
        \A fault2 \in (IF fault = NoExc THEN CallFaults ELSE {NoExc}) :
            \A sdk \in SdkChoices(fault) \cup SdkChoices(fault2) :
                Batch_result(job_id, fault, fault2, sdk)
                    = AsyncBatch_result(job_id, fault, fault2, sdk)

SameCancel ==
    \A job_id \in JobIds, fault \in CallFaults, strict \in BOOLEAN :
        \A sdk \in SdkChoices(fault) :
            Batch_cancel(job_id, fault, strict, sdk)
                = AsyncBatch_cancel(job_id, fault, strict, sdk)

SameList ==
    \A limit \in 0..MaxLimit, after \in 0..MaxJobs, fault \in CallFaults :
        \A sdk \in SdkChoices(fault) :
            Batch_list(limit, after, fault, sdk) = AsyncBatch_list(limit, after, fault, sdk)

\* C28 (sync and async batch adapters are equivalent): in every state the
\* provider can be in between two calls, each of create, status, result,
\* cancel and list of AnthropicAsyncBatchProcess, given the arguments and the
\* provider answer or error that the AnthropicBatchProcess operation is
\* given, makes the same provider calls in the same order, returns the same
\* value or raises the same error, and leaves the provider in the same state.
C28_SyncAndAsyncAgree ==
    (adapter \in BatchAdapters /\ lastOp = NoOp) =>
        /\ nextId <= MaxJobs => SameCreate
        /\ SameStatus
        /\ SameResult
        /\ SameCancel
        /\ SameList

\* C28 witness: between two calls of the async adapter, one batch has ended
\* after a cancellation and another is still in progress; result() of either
\* adapter returns the records of the first through the same two provider
\* calls, and raises the same BatchError for the second after one call.
C28_Witness ==
    /\ adapter = "AnthropicAsyncBatchProcess"
    /\ lastOp = NoOp
    /\ \E j \in JobIds, k \in JobIds :
          /\ jobs[j].cancelled
          /\ AsyncBatch_result(j, NoExc, NoExc, TRUE).result = "return"
          /\ AsyncBatch_result(j, NoExc, NoExc, TRUE).records # <<>>
          /\ AsyncBatch_result(j, NoExc, NoExc, TRUE).calls = <<CallRetrieve(j), CallResults(j)>>
          /\ Batch_result(j, NoExc, NoExc, TRUE) = AsyncBatch_result(j, NoExc, NoExc, TRUE)
          /\ AsyncBatch_result(k, NoExc, NoExc, TRUE).result = "raise"
          /\ AsyncBatch_result(k, NoExc, NoExc, TRUE).error.kind = "BatchError"
          /\ AsyncBatch_result(k, NoExc, NoExc, TRUE).error.detail = "in_progress"
          /\ AsyncBatch_result(k, NoExc, NoExc, TRUE).calls = <<CallRetrieve(k)>>
          /\ Batch_result(k, NoExc, NoExc, TRUE) = AsyncBatch_result(k, NoExc, NoExc, TRUE)


(***************************************************************************)
(* create() given both a file and a requests list.  The files: none, a     *)
(* valid one, one with a line that is not JSON, a path that cannot be      *)
(* opened and bytes that cannot be decoded.                                *)
(***************************************************************************)
BothFiles ==
    { NoFile,
      FileArg("bytes", <<"A", "NL", "B">>, TRUE),
      FileArg("str", <<"A", "NL", "B">>, TRUE),
      FileArg("stream", <<"A">>, TRUE),
      FileArg("bytes", <<"A", "NL", "x">>, TRUE),
      FileArg("str", <<"A">>, FALSE),
      FileArg("bytes", <<"A">>, FALSE) }

BothRequests ==
    { NoRequests, RequestsArg(<<>>), RequestsArg(<<"request-1">>),
      RequestsArg(<<"request-1", "request-2">>) }

CreateFromBoth ==
    /\ adapter \in BatchAdapters
    /\ nextId <= MaxJobs
    /\ lastOp = NoOp
    /\ \E file \in BothFiles, requests \in BothRequests, fault \in Faults :
       \E sdk \in SdkChoices(fault) \cup (IF file.readable THEN {} ELSE BOOLEAN) :
          Complete("create", file, requests, 0, 0, 0, CreateOf(file, requests, fault, sdk), sdk)

NextBoth ==
    \/ CreateFromBoth
    \/ Acknowledge

SpecBoth == InitPayload /\ [][NextBoth]_vars

\* What only opening, reading or parsing the file can make create() raise.
FromTheFile ==
    \/ lastOp.met.cls \in {"OSError", "UnicodeDecodeError"}
    \/ lastOp.error.msg = "Invalid JSON in batch file: "

\* C29 (requests takes precedence over file): when create() is given a
\* requests list, whatever file comes with it, nothing of the outcome comes
\* from the file: an empty list raises BatchError "No requests provided"
\* with no provider call, and any other list is exactly what the one
\* provider call submits and what the created batch holds.
C29_RequestsBeforeFile ==
    (lastOp.op = "create" /\ lastOp.requests.given) =>
        /\ ~FromTheFile
        /\ lastOp.requests.list = <<>> =>
              /\ lastOp.result = "raise"
              /\ lastOp.error.kind = "BatchError"
              /\ lastOp.error.msg = NoRequestsMessage
              /\ lastOp.calls = <<>>
        /\ lastOp.requests.list # <<>> =>
              /\ lastOp.calls = <<CallCreate(lastOp.requests.list)>>
              /\ lastOp.result = "return" =>
                    jobs[lastOp.ret.id].requests = lastOp.requests.list
              /\ lastOp.result # "return" => lastOp.met \in Faults \ {NoExc}

\* C29 witness: create(file=<valid two-line JSONL>, requests=[]) has raised
\* "No requests provided" without a provider call.
C29_Witness ==
    /\ lastOp.op = "create"
    /\ lastOp.requests = RequestsArg(<<>>)
    /\ lastOp.file = FileArg("bytes", <<"A", "NL", "B">>, TRUE)
    /\ lastOp.result = "raise"
    /\ lastOp.error.msg = NoRequestsMessage
    /\ lastOp.calls = <<>>


(***************************************************************************)
(* Classification of the exception an operation met.                       *)
(***************************************************************************)
\* The adapter's own error kind.
OwnKind == IF adapter \in BatchAdapters THEN "BatchError" ELSE "FileError"

\* The adapters whose _handle_exception has a BadRequestError branch.
HandlesBadRequest == adapter \in {"AnthropicFileAPI", "AnthropicAsyncFileAPI"}

\* The messages of the BatchErrors the batch adapters raise themselves.
OwnMessages ==
    { NoRequestsMessage, "Invalid JSON in batch file: ",
      "Batch job is not completed. Current status: " }

\* C30 (classification by first match): an operation of a batch or file
\* adapter that met an Exception raises a library error chosen by the first
\* match in a fixed order: a provider authentication failure gives
\* AuthenticationError and a not-found the adapter's own kind, although both
\* are provider API errors; a bad request gives the adapter's own kind where
\* the adapter handles it; every other provider API error gives APIError
\* with the provider's status_code; any other Exception gives the adapter's
\* own kind.  A BatchError the adapter raised itself reaches the caller as
\* it was raised.
C30_FirstMatchClassifies ==
    adapter \in BatchAdapters \cup FileAdapters =>
        /\ (lastOp.met # NoExc /\ isinstance(lastOp.met, "Exception")) =>
              /\ lastOp.result = "raise"
              /\ CASE isinstance(lastOp.met, "AuthenticationError") ->
                         lastOp.error.kind = "AuthenticationError"
                   [] isinstance(lastOp.met, "NotFoundError") ->
                         /\ lastOp.error.kind = OwnKind
                         /\ lastOp.error.msg \in {"Batch not found: ", "File not found: "}
                   [] isinstance(lastOp.met, "BadRequestError") /\ HandlesBadRequest ->
                         /\ lastOp.error.kind = OwnKind
                         /\ lastOp.error.msg = "Invalid request: "
                   [] isinstance(lastOp.met, "APIError") ->
                         /\ lastOp.error.kind = "APIError"
                         /\ lastOp.error.status_code = lastOp.met.status_code
                   [] OTHER ->
                         /\ lastOp.error.kind = OwnKind
                         /\ lastOp.error.msg = ""
        /\ (adapter \in BatchAdapters /\ lastOp.met = NoExc /\ lastOp.result = "raise") =>
              /\ lastOp.error.kind = "BatchError"
              /\ lastOp.error.msg \in OwnMessages

\* C30 witness: the sync batch adapter met the provider's 401, which is an
\* APIError too, and raised AuthenticationError.
C30_Witness ==
    /\ adapter = "AnthropicBatchProcess"
    /\ lastOp.met = Exc("AuthenticationError", "401")
    /\ isinstance(lastOp.met, "APIError")
    /\ lastOp.result = "raise"
    /\ lastOp.error.kind = "AuthenticationError"

=============================================================================
